---------------------------- MODULE Spec2Model ----------------------------
(***************************************************************************)
(* A model of the strategy and reconciliation engine of the market-making  *)
(* bot: the mirror strategy's order reconciler (updateLevels /             *)
(* doModifyOffer / UpdateWithOps) and fill handler (HandleFill), the daily *)
(* volume filter (Apply / volumeFilterFn) and the TWAP sell scheduler      *)
(* (GetLevels).                                                            *)
(*                                                                         *)
(* Decimal numbers (model.Number) are a mantissa v and a precision p, the  *)
(* value being v / 10^p.  float64 values are modelled by the exact decimal *)
(* or rational they denote.                                                *)
(***************************************************************************)
EXTENDS Integers, Sequences, FiniteSets, TLC

VARIABLES
    \* ---- mirror strategy, one side (updateLevels) ----
    oldOffers,      \* the live offers of the side, as loaded from the venue
    newOrders,      \* the target levels of the side (backing order book)
    hack,           \* hackPriceInvertForBuyOrderChangeCheck: TRUE on the buy side
    allOps,         \* the operation list the last updateLevels returned
    e,              \* "none" | "venue" | "parse": how the last updateLevels ended
    liabilities,    \* the AddLiabilities calls of the current pass, in order
    venueCalls,     \* the calls of modifyOffer/createOffer: position and answer
    pc,             \* "idle" | "built"
    sameTarget      \* the live offers are what the last pass, all of whose
                    \* operations the venue built, left for this target

VARIABLES
    \* ---- mirror strategy, both sides (UpdateWithOps) ----
    buyingAOffers,  \* the live buy offers, as loaded from the venue
    sellingAOffers, \* the live sell offers
    book,           \* the backing order book: its bids and asks
    updateOps,      \* the operation list the last UpdateWithOps returned
    updateErr,      \* "none" | "book" | "venue" | "parse": how it ended
    failedAt,       \* "none" | "book" | "buy" | "sell": where the error arose
    buyOps,         \* what the buy side's updateLevels returned in that call
    sellOps,        \* what the sell side's updateLevels returned in that call
    reserved,       \* the AddLiabilities calls of that call, in order
    updatePc        \* "idle" | "built"

VARIABLES
    \* ---- volume filter (Apply, volumeFilterFn) ----
    filterConfig,   \* the configuration the filter is asked for: the two
                    \* optional caps and the mode
    filterMade,     \* TRUE when construction returned a filter, FALSE when
                    \* it returned an error
    dailyOTB,       \* on-the-books: today's sold base and quote volume
    dailyTBB,       \* to-be-booked: what the call's kept operations add
    pendingOps,     \* the operations of the call not yet filtered
    keptOps,        \* the operations the call returns
    lastOp,         \* the operation filtered last, the totals before it, and
                    \* what volumeFilterFn returned for it
    filterErr,      \* "none" | "query" | "filter": how the call ended
    filterPc        \* "idle" | "filtering" | "returned"

VARIABLES
    \* ---- TWAP sell scheduler (sellTwapLevelProvider.GetLevels) ----
    twapConfig,      \* the arguments of makeSellTwapLevelProvider
    twapMade,        \* TRUE when the factory returned a provider
    clock,           \* time.Now() of the last call: day and second of the day
    activeBucket,    \* p.activeBucket, NoBucket for nil
    previousRoundID, \* p.previousRoundID, NoRound for nil
    lastCall,        \* the last call of GetLevels: its inputs, the bucket and
                     \* round it made, and what it returned
    levelRounds      \* the ids of the rounds that returned a level, in order

VARIABLES
    \* ---- mirror strategy, fill handler (HandleFill) ----
    baseSurplus,     \* s.baseSurplus: per order action, total and committed
    mutex,           \* s.mutex: the handler holding it, NoHolder when free
    handlers,        \* the calls of HandleFill: where each one is, its trade
                     \* and its local values
    hedgeOrders      \* the orders handed to tradeAPI.AddOrder, in order

VARIABLES
    \* ---- volume filter in float64 (volumeFilter.Apply) ----
    config64,        \* f.config, the caps as float64
    dailyOTB64,      \* dailyOTB of the running call
    dailyTBB64,      \* dailyTBB of the running call
    pendingOps64,    \* the operations not yet handed to volumeFilterFn
    keptOps64,       \* the operations kept so far
    lastOp64,        \* the last operation handed to volumeFilterFn and what
                     \* it returned
    filterErr64,     \* the error Apply returned, "none" for nil
    filterPc64       \* idle, filtering, returned

VARIABLES
    \* ---- sell-side TWAP, the surplus formula over every accepted configuration ----
    surplusConfig,   \* the arguments makeSellTwapLevelProvider accepted
    surplusCall      \* the last cutover: the bucket it entered, the divisor
                     \* and the result of firstDistributionOfBaseSurplus

VARIABLES
    \* ---- process registry (KelpOS) ----
    processes,       \* kos.processes: the pid registered under each namespace,
                     \* NoProcess for none
    nextPid,         \* the pid of the next command started
    running,         \* the pids of the commands started and not killed
    kills,           \* the calls of Process.Kill, in order: caller and pid
    stops,           \* the calls of Stop: where each one is, what GetProcess
                     \* gave it and what it returned
    lastRegister     \* the last call of register and what it returned

mirrorVars == <<oldOffers, newOrders, hack, allOps, e, liabilities, venueCalls,
                pc, sameTarget>>

updateVars == <<buyingAOffers, sellingAOffers, book, updateOps, updateErr,
                failedAt, buyOps, sellOps, reserved, updatePc>>

filterVars == <<filterConfig, filterMade, dailyOTB, dailyTBB, pendingOps, keptOps, lastOp,
                filterErr, filterPc>>

twapVars == <<twapConfig, twapMade, clock, activeBucket, previousRoundID, lastCall,
              levelRounds>>

fillVars == <<baseSurplus, mutex, handlers, hedgeOrders>>

filter64Vars == <<config64, dailyOTB64, dailyTBB64, pendingOps64, keptOps64, lastOp64,
                  filterErr64, filterPc64>>

surplusVars == <<surplusConfig, surplusCall>>

registryVars == <<processes, nextPid, running, kills, stops, lastRegister>>

restVars == <<surplusVars, registryVars>>

vars == <<mirrorVars, updateVars, filterVars, twapVars, fillVars, filter64Vars, restVars>>

-----------------------------------------------------------------------------
(* Bounds *)

\* the most fills, each handled by its own call of HandleFill
MaxFills == 2

\* the most calls of Stop, each by its own caller
MaxStops == 2

\* the most commands Background starts
MaxPids == 2

\* GetLevels is followed until a round has this id
MaxRounds == 2

\* and until the clock has reached this day
MaxDays == 1

\* the most operations in one Apply call of the volume filter
MaxOps == 2

\* the longest target list (levels of one side of the order book)
MaxLevels == 2

-----------------------------------------------------------------------------
(* model.Number: fixed-precision decimals *)

\* Parameters of the arithmetic are bound once, as the arguments of
\* functions, so that a nested expression is evaluated once per call.

Pow10[n \in Nat] == IF n = 0 THEN 1 ELSE 10 * Pow10[n - 1]

Abs(x) == IF x < 0 THEN -x ELSE x

Min(a, b) == IF a < b THEN a ELSE b

\* round(x / d) for x >= 0, halves away from zero
RoundDiv[x \in Int, d \in Int] == (2 * x + d) \div (2 * d)

Number == [v : Int, p : Nat]

Num(v, p) == [v |-> v, p |-> p]

\* NumberFromFloat(n.AsFloat(), precision) when n carries more digits
NumberByCappingPrecision[n \in Number, precision \in Nat] ==
    IF n.p > precision
    THEN Num(RoundDiv[n.v, Pow10[n.p - precision]], precision)
    ELSE n

\* n.Scale(num/den): the value times a float factor, at n's precision
Scale[n \in Number, num \in Int, den \in Int] == Num(RoundDiv[n.v * num, den], n.p)

\* a * b = q * 10^7 + r for 0 <= a, b < 10^8, by limbs of 10^4
MulLimbs[a \in Int, b \in Int] ==
    LET a1 == a \div 10000
        a0 == a % 10000
        b1 == b \div 10000
        b0 == b % 10000
        X  == a1 * b0 + a0 * b1
        Z  == (X % 1000) * 10000 + a0 * b0
    IN  [q |-> a1 * b1 * 10 + X \div 1000 + Z \div 10000000,
         r |-> Z % 10000000]

\* n1.Multiply(n2) for two numbers of 7 digits: the product at 7 digits
Multiply[n1 \in Number, n2 \in Number] ==
    LET m == MulLimbs[n1.v, n2.v]
    IN  Num(m.q + (IF 2 * m.r >= 10000000 THEN 1 ELSE 0), Min(n1.p, n2.p))

\* long division: k more decimal digits of a quotient by m
LongDiv[q \in Int, r \in Int, m \in Int, k \in Nat] ==
    IF k = 0 THEN [q |-> q, r |-> r]
    ELSE LongDiv[q * 10 + (r * 10) \div m, (r * 10) % m, m, k - 1]

\* InvertNumber(n): 1/value at n's precision (7 digits), i.e. 10^14 / v rounded
InvertNumber[n \in Number] ==
    LET d == LongDiv[1000000000 \div n.v, 1000000000 % n.v, n.v, 5]
    IN  Num(d.q + (IF 2 * d.r >= n.v THEN 1 ELSE 0), n.p)

\* n1.EqualsPrecisionNormalized(n2, epsilon): both capped to the lower
\* precision, then |difference| < epsilon; eps4 is epsilon in units of 10^-4
EqualsPrecisionNormalized[n1 \in Number, n2 \in Number, eps4 \in Nat] ==
    LET p == Min(n1.p, n2.p)
        c1 == NumberByCappingPrecision[n1, p]
        c2 == NumberByCappingPrecision[n2, p]
    IN  IF p >= 4
        THEN Abs(c1.v - c2.v) < eps4 * Pow10[p - 4]
        ELSE Abs(c1.v - c2.v) * Pow10[4 - p] < eps4

\* a.AsFloat() < b.AsFloat()
LessFloat[a \in Number, b \in Number] ==
    IF a.p >= b.p THEN a.v < b.v * Pow10[a.p - b.p]
                  ELSE a.v * Pow10[b.p - a.p] < b.v

\* a float64 that is no Number: value = (v7 + rem / 10^7) / 10^7
Float(v7, rem) == [v7 |-> v7, rem |-> rem]

\* n.AsFloat() of a number of 7 digits
AsFloat(n) == Float(n.v, 0)

\* a.AsFloat() * b.AsFloat(), the product of two floats (not rounded to 7 digits)
FloatProduct[a \in Number, b \in Number] ==
    LET m == MulLimbs[a.v, b.v] IN Float(m.q, m.r)

\* a string of a venue: a decimal of 7 digits, or one that does not parse
Str(v) == [ok |-> TRUE, v |-> v]

Garbled == [ok |-> FALSE, v |-> 0]

String7 == [ok : BOOLEAN, v : Int]

\* strconv.FormatFloat(x, 'f', 7, 64) of a number of 7 digits or fewer
FormatFloat[n \in Number] == Str(n.v * Pow10[7 - n.p])

\* MustNumberFromString(s, precision) of a string that parses
MustNumberFromString[s \in String7, precision \in Nat] ==
    IF precision >= 7 THEN Num(s.v * Pow10[precision - 7], precision)
                      ELSE Num(RoundDiv[s.v, Pow10[7 - precision]], precision)

-----------------------------------------------------------------------------
(* mirror strategy: configuration *)

\* mirrorConfig: PER_LEVEL_SPREAD = 0.1, VOLUME_DIVIDE_BY = 2
config == [perLevelSpread |-> [num |-> 1, den |-> 10], volumeDivideBy |-> 2]

\* sdex.GetOrderConstraints(pair)
primaryConstraints == [PricePrecision |-> 7, VolumePrecision |-> 7]

\* exchange.GetOrderConstraints(backingPair); MinBaseVolume = 0.1
backingConstraints ==
    [PricePrecision |-> 7, VolumePrecision |-> 7, MinBaseVolume |-> Num(1000000, 7)]

\* epsilon := 0.0001, in units of 10^-4
epsilon == 1

\* (1 - s.perLevelSpread) for the buy side, (1 + s.perLevelSpread) for the sell side
priceMultiplier(buySide) ==
    LET s == config.perLevelSpread
    IN  IF buySide THEN [num |-> s.den - s.num, den |-> s.den]
                   ELSE [num |-> s.den + s.num, den |-> s.den]

-----------------------------------------------------------------------------
(* mirror strategy: the operations and the liability tracker *)

Op(kind, idx, price, amount) ==
    [kind |-> kind, idx |-> idx, price |-> price, amount |-> amount]

\* s.sdex.DeleteOffer(oldOffer): the offer is named by its position
DeleteOffer(i) == Op("delete", i, 0, 0)

\* s.sdex.AddLiabilities(selling, buying, amountSelling, amountBuying, fee):
\* the call is appended to the pass's record; it never rejects
AddLiabilities(liab, i, selling, buying, amountSelling, amountBuying) ==
    Append(liab, [idx |-> i, selling |-> selling, buying |-> buying,
                  amountSelling |-> amountSelling, amountBuying |-> amountBuying])

\* the offer the venue holds once a create or modify operation is applied:
\* the buy-side builders invert the price and multiply the amount by it
PostedOffer(op, buySide) ==
    LET price  == Num(op.price, 7)
        amount == Num(op.amount, 7)
    IN  IF buySide
        THEN [Price |-> FormatFloat[InvertNumber[price]],
              Amount |-> FormatFloat[Multiply[amount, price]],
              Selling |-> "quote", Buying |-> "base"]
        ELSE [Price |-> FormatFloat[price], Amount |-> FormatFloat[amount],
              Selling |-> "base", Buying |-> "quote"]


-----------------------------------------------------------------------------
(* mirror strategy: doModifyOffer and updateLevels *)

\* what one call of doModifyOffer or of the create loop's body gives back:
\* the operations it adds, the liabilities after it, what the venue answered
\* ("none" when it was not called), and the error ("none", "parse" or "venue")
Outcome(ops, deleteOps, liab, answer, err) ==
    [ops |-> ops, deleteOps |-> deleteOps, liab |-> liab, answer |-> answer,
     e |-> err]

\* AddLiabilities for an offer of (price, amount) in sell-equivalent terms:
\* the buy side sells amount * price of the quote asset for amount of the base
reserve(liab, i, selling, buying, amount, price, buySide) ==
    IF buySide
    THEN AddLiabilities(liab, i, selling, buying, AsFloat(Multiply[amount, price]), AsFloat(amount))
    ELSE AddLiabilities(liab, i, selling, buying, AsFloat(amount), AsFloat(Multiply[amount, price]))

\* doModifyOffer without the AddLiabilities call of the sameOrderParams branch
modifyOrKeep_keepUnreserved(oldOffer, oldPrice, oldVol, offerPrice, offerAmount, sameOrderParams, answer, buySide, i, liab) ==
    IF sameOrderParams
    THEN Outcome(<<>>, <<>>, liab, "none", "none")
    ELSE IF LessFloat[offerAmount, backingConstraints.MinBaseVolume]
    THEN Outcome(<<>>, <<DeleteOffer(i)>>, liab, "none", "none")
    ELSE IF answer = "err"
    THEN Outcome(<<>>, <<>>, liab, "err", "venue")
    ELSE IF answer = "op"
    THEN Outcome(<<Op("modify", i, offerPrice.v, offerAmount.v)>>, <<>>,
            reserve(liab, i, oldOffer.Selling, oldOffer.Buying, offerAmount, offerPrice, buySide),
            "op", "none")
    ELSE Outcome(<<>>, <<DeleteOffer(i)>>, liab, "nil", "none")

\* doModifyOffer without the MinBaseVolume check: a changed pair always goes
\* to modifyOffer
modifyOrKeep_noMinimum(oldOffer, oldPrice, oldVol, offerPrice, offerAmount, sameOrderParams, answer, buySide, i, liab) ==
    IF sameOrderParams
    THEN Outcome(<<>>, <<>>,
            reserve(liab, i, oldOffer.Selling, oldOffer.Buying, oldVol, oldPrice, buySide),
            "none", "none")
    ELSE IF answer = "err"
    THEN Outcome(<<>>, <<>>, liab, "err", "venue")
    ELSE IF answer = "op"
    THEN Outcome(<<Op("modify", i, offerPrice.v, offerAmount.v)>>, <<>>,
            reserve(liab, i, oldOffer.Selling, oldOffer.Buying, offerAmount, offerPrice, buySide),
            "op", "none")
    ELSE Outcome(<<>>, <<DeleteOffer(i)>>, liab, "nil", "none")

\* doModifyOffer returning (nil, nil, nil) when modifyOffer returns nil: the
\* offer is left in place
modifyOrKeep_nilDropped(oldOffer, oldPrice, oldVol, offerPrice, offerAmount, sameOrderParams, answer, buySide, i, liab) ==
    IF sameOrderParams
    THEN Outcome(<<>>, <<>>,
            reserve(liab, i, oldOffer.Selling, oldOffer.Buying, oldVol, oldPrice, buySide),
            "none", "none")
    ELSE IF LessFloat[offerAmount, backingConstraints.MinBaseVolume]
    THEN Outcome(<<>>, <<DeleteOffer(i)>>, liab, "none", "none")
    ELSE IF answer = "err"
    THEN Outcome(<<>>, <<>>, liab, "err", "venue")
    ELSE IF answer = "op"
    THEN Outcome(<<Op("modify", i, offerPrice.v, offerAmount.v)>>, <<>>,
            reserve(liab, i, oldOffer.Selling, oldOffer.Buying, offerAmount, offerPrice, buySide),
            "op", "none")
    ELSE Outcome(<<>>, <<>>, liab, "nil", "none")

\* doModifyOffer from "if sameOrderParams" on: offerPrice and offerAmount are
\* the target capped to the primary venue's precision
modifyOrKeep(oldOffer, oldPrice, oldVol, offerPrice, offerAmount, sameOrderParams, answer, buySide, i, liab) ==
    IF sameOrderParams
    THEN Outcome(<<>>, <<>>,
            reserve(liab, i, oldOffer.Selling, oldOffer.Buying, oldVol, oldPrice, buySide),
            "none", "none")
    ELSE IF LessFloat[offerAmount, backingConstraints.MinBaseVolume]
    THEN Outcome(<<>>, <<DeleteOffer(i)>>, liab, "none", "none")
    ELSE IF answer = "err"
    THEN Outcome(<<>>, <<>>, liab, "err", "venue")
    ELSE IF answer = "op"
    THEN Outcome(<<Op("modify", i, offerPrice.v, offerAmount.v)>>, <<>>,
            reserve(liab, i, oldOffer.Selling, oldOffer.Buying, offerAmount, offerPrice, buySide),
            "op", "none")
    ELSE Outcome(<<>>, <<DeleteOffer(i)>>, liab, "nil", "none")

\* the live offer's price in sell-equivalent terms: inverted on the buy side
sellEquivalentPrice(parsedPrice, buySide) ==
    IF buySide THEN InvertNumber[parsedPrice] ELSE parsedPrice

\* the live offer's volume in base units: multiplied by the original price on
\* the buy side
sellEquivalentVol(parsedVol, parsedPrice, buySide) ==
    IF buySide THEN Multiply[parsedVol, parsedPrice] ELSE parsedVol

\* sameOrderParams of doModifyOffer, epsilon := 0.0001
sameParams(oldPrice, oldVol, price, vol) ==
    /\ EqualsPrecisionNormalized[oldPrice, price, epsilon]
    /\ EqualsPrecisionNormalized[oldVol, vol, epsilon]

\* doModifyOffer once price, vol, oldPrice and oldVol are computed
compareAndModify(oldOffer, oldPrice, oldVol, price, vol, answer, buySide, i, liab) ==
    modifyOrKeep(oldOffer, oldPrice, oldVol,
                 NumberByCappingPrecision[price, primaryConstraints.PricePrecision],
                 NumberByCappingPrecision[vol, primaryConstraints.VolumePrecision],
                 sameParams(oldPrice, oldVol, price, vol),
                 answer, buySide, i, liab)

\* doModifyOffer once the live offer's strings are parsed
modifyParsed(oldOffer, newOrder, parsedPrice, parsedVol, mult, answer, buySide, i, liab) ==
    compareAndModify(oldOffer,
                     sellEquivalentPrice(parsedPrice, buySide),
                     sellEquivalentVol(parsedVol, parsedPrice, buySide),
                     Scale[newOrder.Price, mult.num, mult.den],
                     Scale[newOrder.Volume, 1, config.volumeDivideBy],
                     answer, buySide, i, liab)

\* doModifyOffer(oldOffer, newOrder, priceMultiplier, modifyOffer, hack) at
\* position i; answer is what modifyOffer returns when it is called: "op",
\* "nil" or "err"
doModifyOffer(oldOffer, newOrder, mult, answer, buySide, i, liab) ==
    IF ~oldOffer.Price.ok \/ ~oldOffer.Amount.ok
    THEN Outcome(<<>>, <<>>, liab, "none", "parse")
    ELSE modifyParsed(oldOffer, newOrder,
            MustNumberFromString[oldOffer.Price, primaryConstraints.PricePrecision],
            MustNumberFromString[oldOffer.Amount, primaryConstraints.VolumePrecision],
            mult, answer, buySide, i, liab)

\* the create loop's body without the MinBaseVolume skip
createPriced_noSkip(price, vol, answer, buySide, i, liab) ==
    IF answer = "err"
    THEN Outcome(<<>>, <<>>, liab, "err", "venue")
    ELSE IF answer = "op"
    THEN Outcome(<<Op("create", i, price.v, vol.v)>>, <<>>,
            IF buySide
            THEN AddLiabilities(liab, i, "quote", "base", FloatProduct[vol, price], AsFloat(vol))
            ELSE AddLiabilities(liab, i, "base", "quote", AsFloat(vol), FloatProduct[vol, price]),
            "op", "none")
    ELSE Outcome(<<>>, <<>>, liab, "nil", "none")

\* the create loop's body reserving capital whatever createOffer returned
\* without an error
createPriced_reservesOnNil(price, vol, answer, buySide, i, liab) ==
    IF LessFloat[vol, backingConstraints.MinBaseVolume]
    THEN Outcome(<<>>, <<>>, liab, "none", "none")
    ELSE IF answer = "err"
    THEN Outcome(<<>>, <<>>, liab, "err", "venue")
    ELSE Outcome(IF answer = "op" THEN <<Op("create", i, price.v, vol.v)>> ELSE <<>>, <<>>,
            IF buySide
            THEN AddLiabilities(liab, i, "quote", "base", FloatProduct[vol, price], AsFloat(vol))
            ELSE AddLiabilities(liab, i, "base", "quote", AsFloat(vol), FloatProduct[vol, price]),
            answer, "none")

\* the create loop's body once price and vol are computed
createPriced(price, vol, answer, buySide, i, liab) ==
    IF LessFloat[vol, backingConstraints.MinBaseVolume]
    THEN Outcome(<<>>, <<>>, liab, "none", "none")
    ELSE IF answer = "err"
    THEN Outcome(<<>>, <<>>, liab, "err", "venue")
    ELSE IF answer = "op"
    THEN Outcome(<<Op("create", i, price.v, vol.v)>>, <<>>,
            IF buySide
            THEN AddLiabilities(liab, i, "quote", "base", FloatProduct[vol, price], AsFloat(vol))
            ELSE AddLiabilities(liab, i, "base", "quote", AsFloat(vol), FloatProduct[vol, price]),
            "op", "none")
    ELSE Outcome(<<>>, <<>>, liab, "nil", "none")

\* the body of "create offers for remaining new bids" at position i
createLevel(newOrder, mult, answer, buySide, i, liab) ==
    createPriced(Scale[newOrder.Price, mult.num, mult.den],
                 Scale[newOrder.Volume, 1, config.volumeDivideBy],
                 answer, buySide, i, liab)

\* updateLevels without the "delete remaining prior offers" loop
levelAt_surplusKept(i, offers, orders, mult, venue, buySide, liab) ==
    IF i <= Len(offers) /\ i <= Len(orders)
    THEN doModifyOffer(offers[i], orders[i], mult, venue[i], buySide, i, liab)
    ELSE IF Len(orders) >= Len(offers)
    THEN createLevel(orders[i], mult, venue[i], buySide, i, liab)
    ELSE Outcome(<<>>, <<>>, liab, "none", "none")

\* what position i of updateLevels does: a paired position goes to
\* doModifyOffer, a surplus target to the create loop, a surplus live offer
\* is deleted
levelAt(i, offers, orders, mult, venue, buySide, liab) ==
    IF i <= Len(offers) /\ i <= Len(orders)
    THEN doModifyOffer(offers[i], orders[i], mult, venue[i], buySide, i, liab)
    ELSE IF Len(orders) >= Len(offers)
    THEN createLevel(orders[i], mult, venue[i], buySide, i, liab)
    ELSE Outcome(<<>>, <<DeleteOffer(i)>>, liab, "none", "none")

\* ops, deleteOps, the liabilities and the venue calls after position i
collect(acc, r, i) ==
    [ops       |-> acc.ops \o r.ops,
     deleteOps |-> acc.deleteOps \o r.deleteOps,
     liab      |-> r.liab,
     calls     |-> IF r.answer = "none" THEN acc.calls
                   ELSE acc.calls \cup {[idx |-> i, answer |-> r.answer]},
     e         |-> r.e]

\* the loops of updateLevels from position i on; an error ends them
RECURSIVE levelLoop(_, _, _, _, _, _, _)
levelLoop(i, offers, orders, mult, venue, buySide, acc) ==
    IF acc.e # "none" \/ (i > Len(offers) /\ i > Len(orders))
    THEN acc
    ELSE levelLoop(i + 1, offers, orders, mult, venue, buySide,
                   collect(acc, levelAt(i, offers, orders, mult, venue, buySide, acc.liab), i))

\* updateLevels returning append(ops, deleteOps...)
returned_opsFirst(r) ==
    [allOps |-> IF r.e = "none" THEN r.ops \o r.deleteOps ELSE <<>>,
     e      |-> r.e,
     liab   |-> r.liab,
     calls  |-> r.calls]

\* "prepend deleteOps": allOps := append(deleteOps, ops...); nil on an error
returned(r) ==
    [allOps |-> IF r.e = "none" THEN r.deleteOps \o r.ops ELSE <<>>,
     e      |-> r.e,
     liab   |-> r.liab,
     calls  |-> r.calls]

\* updateLevels(oldOffers, newOrders, modifyOffer, createOffer, priceMultiplier,
\* hack), with the liabilities liab at its start
updateLevels(offers, orders, venue, mult, buySide, liab) ==
    returned(levelLoop(1, offers, orders, mult, venue, buySide,
                 [ops |-> <<>>, deleteOps |-> <<>>, liab |-> liab, calls |-> {},
                  e |-> "none"]))

-----------------------------------------------------------------------------
(* mirror strategy: the venue's side of one pass *)

HasOp(ops, kind, i) == \E k \in 1..Len(ops) : ops[k].kind = kind /\ ops[k].idx = i

TheOp(ops, kind, i) == ops[CHOOSE k \in 1..Len(ops) : ops[k].kind = kind /\ ops[k].idx = i]

OpsOfKind(ops, kind) == SelectSeq(ops, LAMBDA o : o.kind = kind)

\* the live offers from position i on once the deletes and modifies are applied
RECURSIVE remainingOffers(_, _, _, _)
remainingOffers(i, offers, ops, buySide) ==
    IF i > Len(offers) THEN <<>>
    ELSE (IF HasOp(ops, "delete", i) THEN <<>>
          ELSE IF HasOp(ops, "modify", i)
          THEN <<PostedOffer(TheOp(ops, "modify", i), buySide)>>
          ELSE <<offers[i]>>)
         \o remainingOffers(i + 1, offers, ops, buySide)

\* the live offers once the pass's operations are applied: deleted offers
\* removed, modified offers updated, created offers appended
ApplyOps(offers, ops, buySide) ==
    LET created == OpsOfKind(ops, "create")
    IN  remainingOffers(1, offers, ops, buySide)
        \o [k \in 1..Len(created) |-> PostedOffer(created[k], buySide)]

\* the levels the backing order book can show: price 7.0 or 7.5; volume 0.1
\* (half of it is below MinBaseVolume), 0.4, 0.4001 or 0.6
Orders ==
    { [Price |-> Num(70000000, 7), Volume |-> Num(1000000, 7)],
      [Price |-> Num(70000000, 7), Volume |-> Num(4000000, 7)],
      [Price |-> Num(70000000, 7), Volume |-> Num(4001000, 7)],
      [Price |-> Num(75000000, 7), Volume |-> Num(6000000, 7)] }

SeqsUpTo(S, n) == UNION { [1..k -> S] : k \in 0..n }

\* ob.Bids() is ordered by falling price, ob.Asks() by rising price
BestPriceFirst(orders, buySide) ==
    \A k \in 1..(Len(orders) - 1) :
        IF buySide THEN orders[k].Price.v >= orders[k + 1].Price.v
                   ELSE orders[k].Price.v <= orders[k + 1].Price.v

Targets(buySide) ==
    { t \in SeqsUpTo(Orders, MaxLevels) : BestPriceFirst(t, buySide) }

\* what modifyOffer / createOffer return at each position when called
Answers == [1..MaxLevels -> {"op", "nil", "err"}]

\* the offers as the venue returns them, the strings of offer g unreadable
Garble(offers, g) ==
    [k \in 1..Len(offers) |->
        IF k = g THEN [offers[k] EXCEPT !.Price = Garbled] ELSE offers[k]]

-----------------------------------------------------------------------------
(* mirror strategy: the state machine of one side *)

MirrorInit ==
    /\ oldOffers = <<>>
    /\ newOrders = <<>>
    /\ hack \in BOOLEAN
    /\ allOps = <<>>
    /\ e = "none"
    /\ liabilities = <<>>
    /\ venueCalls = {}
    /\ pc = "idle"
    /\ sameTarget = FALSE

\* the backing order book moves: the side's target levels change
TargetMoves ==
    /\ pc = "idle"
    /\ \E t \in Targets(hack) :
        /\ t # newOrders
        /\ newOrders' = t
    /\ sameTarget' = FALSE
    /\ UNCHANGED <<oldOffers, hack, allOps, e, liabilities, venueCalls, pc>>
    /\ UNCHANGED <<updateVars, filterVars, twapVars, fillVars, filter64Vars, restVars>>

\* one call of updateLevels on the side's live offers and target levels
Reconcile ==
    /\ pc = "idle"
    /\ \E venue \in Answers, g \in 0..Len(oldOffers) :
        \E r \in {updateLevels(Garble(oldOffers, g), newOrders, venue,
                               priceMultiplier(hack), hack, <<>>)} :
            /\ allOps' = r.allOps
            /\ e' = r.e
            /\ liabilities' = r.liab
            /\ venueCalls' = r.calls
    /\ pc' = "built"
    /\ UNCHANGED <<oldOffers, newOrders, hack, sameTarget>>
    /\ UNCHANGED <<updateVars, filterVars, twapVars, fillVars, filter64Vars, restVars>>

\* the operations are submitted and applied by the venue; the pass ends
Submit ==
    /\ pc = "built"
    /\ e = "none"
    /\ oldOffers' = ApplyOps(oldOffers, allOps, hack)
    /\ sameTarget' = (\A c \in venueCalls : c.answer = "op")
    /\ pc' = "idle"
    /\ allOps' = <<>>
    /\ liabilities' = <<>>
    /\ venueCalls' = {}
    /\ UNCHANGED <<newOrders, hack, e>>
    /\ UNCHANGED <<updateVars, filterVars, twapVars, fillVars, filter64Vars, restVars>>

\* the pass ends with nothing applied (an error, or a failed submission)
Discard ==
    /\ pc = "built"
    /\ sameTarget' = FALSE
    /\ pc' = "idle"
    /\ allOps' = <<>>
    /\ e' = "none"
    /\ liabilities' = <<>>
    /\ venueCalls' = {}
    /\ UNCHANGED <<oldOffers, newOrders, hack>>
    /\ UNCHANGED <<updateVars, filterVars, twapVars, fillVars, filter64Vars, restVars>>

MirrorNext == TargetMoves \/ Reconcile \/ Submit \/ Discard

-----------------------------------------------------------------------------
(* mirror strategy: UpdateWithOps *)

\* "limit bids and asks to max 50 operations each"
maxOpsPerSide == 50

limited(orders) == SubSeq(orders, 1, Min(Len(orders), maxOpsPerSide))

\* an operation of the combined list, marked with the side that built it
sideOps(sideName, list) ==
    [k \in 1..Len(list) |->
        [kind |-> list[k].kind, idx |-> list[k].idx, price |-> list[k].price,
         amount |-> list[k].amount, side |-> sideName]]

\* utils.PriceAsFloat(offer.Price): an unreadable price reads as 0
PriceAsFloat(s) == IF s.ok THEN s.v ELSE 0

\* ob.Bids()[0].Price.AsFloat() >= utils.PriceAsFloat(sellingAOffers[0].Price),
\* when there is a bid and a live sell offer
bidCrossesOffer(bids, selling) ==
    /\ Len(bids) > 0
    /\ Len(selling) > 0
    /\ FormatFloat[bids[1].Price].v >= PriceAsFloat(selling[1].Price)

\* what UpdateWithOps gives back: the list, the error, and for the record
\* what each side's updateLevels returned and the liabilities reserved
Updated(list, err, at, b, s, liab) ==
    [ops |-> list, e |-> err, at |-> at, buyOps |-> b, sellOps |-> s, liab |-> liab]

\* UpdateWithOps returning the buy side's operations when the sell side fails
updateBothSides_partial(b, s, bids, selling) ==
    IF s.e # "none"
    THEN Updated(sideOps("buy", b.allOps), s.e, "sell", b.allOps, s.allOps, s.liab)
    ELSE IF bidCrossesOffer(bids, selling)
    THEN Updated(sideOps("sell", s.allOps) \o sideOps("buy", b.allOps), "none", "none",
                 b.allOps, s.allOps, s.liab)
    ELSE Updated(sideOps("buy", b.allOps) \o sideOps("sell", s.allOps), "none", "none",
                 b.allOps, s.allOps, s.liab)

\* a list back to front
backToFront(list) == [k \in 1..Len(list) |-> list[Len(list) + 1 - k]]

\* UpdateWithOps appending the second side's list back to front
updateBothSides_backToFront(b, s, bids, selling) ==
    IF s.e # "none"
    THEN Updated(<<>>, s.e, "sell", b.allOps, s.allOps, s.liab)
    ELSE IF bidCrossesOffer(bids, selling)
    THEN Updated(sideOps("sell", s.allOps) \o backToFront(sideOps("buy", b.allOps)), "none", "none",
                 b.allOps, s.allOps, s.liab)
    ELSE Updated(sideOps("buy", b.allOps) \o backToFront(sideOps("sell", s.allOps)), "none", "none",
                 b.allOps, s.allOps, s.liab)

\* UpdateWithOps once both sides are built: b and s are what updateLevels
\* returned for the buy and the sell side
updateBothSides(b, s, bids, selling) ==
    IF s.e # "none"
    THEN Updated(<<>>, s.e, "sell", b.allOps, s.allOps, s.liab)
    ELSE IF bidCrossesOffer(bids, selling)
    THEN Updated(sideOps("sell", s.allOps) \o sideOps("buy", b.allOps), "none", "none",
                 b.allOps, s.allOps, s.liab)
    ELSE Updated(sideOps("buy", b.allOps) \o sideOps("sell", s.allOps), "none", "none",
                 b.allOps, s.allOps, s.liab)

\* UpdateWithOps once the buy side is built
updateSellSide(b, selling, bids, asks, venueSell) ==
    IF b.e # "none"
    THEN Updated(<<>>, b.e, "buy", b.allOps, <<>>, b.liab)
    ELSE updateBothSides(b,
            updateLevels(selling, asks, venueSell, priceMultiplier(FALSE), FALSE, b.liab),
            bids, selling)

\* UpdateWithOps(buyingAOffers, sellingAOffers); ob is what GetOrderBook
\* returns, venueBuy and venueSell what the builders of each side return
UpdateWithOps(buying, selling, ob, venueBuy, venueSell) ==
    IF ~ob.ok
    THEN Updated(<<>>, "book", "book", <<>>, <<>>, <<>>)
    ELSE updateSellSide(
            updateLevels(buying, limited(ob.bids), venueBuy, priceMultiplier(TRUE), TRUE, <<>>),
            selling, limited(ob.bids), limited(ob.asks), venueSell)

\* the levels of the backing order book in this machine
BookLevels == { o \in Orders : o.Volume.v \in {4000000, 6000000} }

BookSide(buySide) ==
    { t \in SeqsUpTo(BookLevels, MaxLevels) : BestPriceFirst(t, buySide) }

\* what goes wrong in one call, if anything: the order book cannot be
\* fetched, a builder returns nil or an error at one position of one side,
\* or one live offer's strings are unreadable
Faults ==
    {[kind |-> "none", side |-> "buy", at |-> 0], [kind |-> "book", side |-> "buy", at |-> 0]}
    \cup [kind : {"nil", "err", "garbled"}, side : {"buy", "sell"}, at : 1..MaxLevels]

venueUnder(f, sideName) ==
    [k \in 1..MaxLevels |->
        IF f.side = sideName /\ f.at = k /\ f.kind \in {"nil", "err"}
        THEN f.kind ELSE "op"]

offersUnder(f, sideName, offers) ==
    IF f.kind = "garbled" /\ f.side = sideName THEN Garble(offers, f.at) ELSE offers

UpdateIdle ==
    /\ buyingAOffers = <<>>
    /\ sellingAOffers = <<>>
    /\ book = [bids |-> <<>>, asks |-> <<>>]
    /\ updateOps = <<>>
    /\ updateErr = "none"
    /\ failedAt = "none"
    /\ buyOps = <<>>
    /\ sellOps = <<>>
    /\ reserved = <<>>
    /\ updatePc = "idle"

MirrorIdle ==
    /\ oldOffers = <<>>
    /\ newOrders = <<>>
    /\ hack = FALSE
    /\ allOps = <<>>
    /\ e = "none"
    /\ liabilities = <<>>
    /\ venueCalls = {}
    /\ pc = "idle"
    /\ sameTarget = FALSE

\* the bids of the backing order book change
BidsMove ==
    /\ updatePc = "idle"
    /\ \E t \in BookSide(TRUE) :
        /\ t # book.bids
        /\ book' = [book EXCEPT !.bids = t]
    /\ UNCHANGED <<buyingAOffers, sellingAOffers, updateOps, updateErr, failedAt,
                   buyOps, sellOps, reserved, updatePc>>
    /\ UNCHANGED <<mirrorVars, filterVars, twapVars, fillVars, filter64Vars, restVars>>

\* the asks of the backing order book change
AsksMove ==
    /\ updatePc = "idle"
    /\ \E t \in BookSide(FALSE) :
        /\ t # book.asks
        /\ book' = [book EXCEPT !.asks = t]
    /\ UNCHANGED <<buyingAOffers, sellingAOffers, updateOps, updateErr, failedAt,
                   buyOps, sellOps, reserved, updatePc>>
    /\ UNCHANGED <<mirrorVars, filterVars, twapVars, fillVars, filter64Vars, restVars>>

\* one call of UpdateWithOps on the live offers of both sides
Update ==
    /\ updatePc = "idle"
    /\ \E f \in Faults :
        \E r \in {UpdateWithOps(offersUnder(f, "buy", buyingAOffers),
                                offersUnder(f, "sell", sellingAOffers),
                                [ok |-> f.kind # "book", bids |-> book.bids,
                                 asks |-> book.asks],
                                venueUnder(f, "buy"), venueUnder(f, "sell"))} :
            /\ updateOps' = r.ops
            /\ updateErr' = r.e
            /\ failedAt' = r.at
            /\ buyOps' = r.buyOps
            /\ sellOps' = r.sellOps
            /\ reserved' = r.liab
    /\ updatePc' = "built"
    /\ UNCHANGED <<buyingAOffers, sellingAOffers, book>>
    /\ UNCHANGED <<mirrorVars, filterVars, twapVars, fillVars, filter64Vars, restVars>>

\* the operations of both sides are submitted and applied by the venue
SubmitBoth ==
    /\ updatePc = "built"
    /\ updateErr = "none"
    /\ buyingAOffers' = ApplyOps(buyingAOffers, buyOps, TRUE)
    /\ sellingAOffers' = ApplyOps(sellingAOffers, sellOps, FALSE)
    /\ updatePc' = "idle"
    /\ updateOps' = <<>>
    /\ buyOps' = <<>>
    /\ sellOps' = <<>>
    /\ reserved' = <<>>
    /\ UNCHANGED <<book, updateErr, failedAt>>
    /\ UNCHANGED <<mirrorVars, filterVars, twapVars, fillVars, filter64Vars, restVars>>

\* the call ends with nothing applied (an error, or a failed submission)
DiscardBoth ==
    /\ updatePc = "built"
    /\ updatePc' = "idle"
    /\ updateOps' = <<>>
    /\ updateErr' = "none"
    /\ failedAt' = "none"
    /\ buyOps' = <<>>
    /\ sellOps' = <<>>
    /\ reserved' = <<>>
    /\ UNCHANGED <<buyingAOffers, sellingAOffers, book>>
    /\ UNCHANGED <<mirrorVars, filterVars, twapVars, fillVars, filter64Vars, restVars>>

UpdateNext == BidsMove \/ AsksMove \/ Update \/ SubmitBoth \/ DiscardBoth

-----------------------------------------------------------------------------
(* volume filter: float64 values as exact fractions *)

GCD[a \in Nat, b \in Nat] == IF b = 0 THEN a ELSE GCD[b, a % b]

\* the fraction n/d, d > 0, in lowest terms
Rat(n, d) == [n |-> n \div GCD[Abs(n), d], d |-> d \div GCD[Abs(n), d]]

Whole(n) == [n |-> n, d |-> 1]

RAdd(a, b) == Rat(a.n * b.d + b.n * a.d, a.d * b.d)

RSub(a, b) == Rat(a.n * b.d - b.n * a.d, a.d * b.d)

RMul(a, b) == Rat(a.n * b.n, a.d * b.d)

\* a / b for b > 0
RDiv(a, b) == Rat(a.n * b.d, a.d * b.n)

RLe(a, b) == a.n * b.d <= b.n * a.d

RLt(a, b) == a.n * b.d < b.n * a.d

\* the first seven decimals of x >= 0 as an integer, and what is left over
Decimals7(x) == LongDiv[x.n \div x.d, x.n % x.d, x.d, 7]

\* fmt.Sprintf("%.7f", x) for x >= 0: rounded to the nearest 10^-7
Sprintf7(x) == Str(Decimals7(x).q + (IF 2 * Decimals7(x).r >= x.d THEN 1 ELSE 0))

\* strconv.ParseFloat of a string of seven decimals
ParseFloat(s) == Rat(s.v, Pow10[7])

-----------------------------------------------------------------------------
(* volume filter: volumeFilterFn *)

\* an optional cap: *float64
NoCap == [set |-> FALSE, v |-> Whole(0)]

Cap(n) == [set |-> TRUE, v |-> Whole(n)]

\* what volumeFilterFn gives back: the operation or nil, the to-be-booked
\* totals after it, and the error
Filtered(kept, op, tbb, err) == [kept |-> kept, op |-> op, tbb |-> tbb, e |-> err]

\* the outcome of one cap's check: keepSelling, newAmountBeingSold and
\* opToReturn.Amount after it
Checked(keep, newAmountBeingSold, amountString) ==
    [keep |-> keep, newAmountBeingSold |-> newAmountBeingSold, Amount |-> amountString]

\* the base-units check without the exact-mode shrinking
capCheck_noShrink(cap, mode, otb, tbb, contribution, perUnit, newAmountBeingSold, amountString) ==
    IF ~cap.set
    THEN Checked(TRUE, newAmountBeingSold, amountString)
    ELSE Checked(RLe(RAdd(RAdd(otb, tbb), contribution), cap.v),
                 newAmountBeingSold, amountString)

\* one cap's check shrinking the order whatever the mode
capCheck_modeIgnored(cap, mode, otb, tbb, contribution, perUnit, newAmountBeingSold, amountString) ==
    IF ~cap.set
    THEN Checked(TRUE, newAmountBeingSold, amountString)
    ELSE IF RLe(RAdd(RAdd(otb, tbb), contribution), cap.v)
    THEN Checked(TRUE, newAmountBeingSold, amountString)
    ELSE IF RLt(Whole(0), RSub(RSub(cap.v, otb), tbb))
    THEN Checked(TRUE, RDiv(RSub(RSub(cap.v, otb), tbb), perUnit),
                 Sprintf7(RDiv(RSub(RSub(cap.v, otb), tbb), perUnit)))
    ELSE Checked(FALSE, newAmountBeingSold, amountString)

\* one cap's check of volumeFilterFn: contribution is what the order adds to
\* the projected total in the cap's units, perUnit what one base unit adds
\* (1 for the base-units cap, sellPrice for the quote-units cap)
capCheck(cap, mode, otb, tbb, contribution, perUnit, newAmountBeingSold, amountString) ==
    IF ~cap.set
    THEN Checked(TRUE, newAmountBeingSold, amountString)
    ELSE IF RLe(RAdd(RAdd(otb, tbb), contribution), cap.v)
    THEN Checked(TRUE, newAmountBeingSold, amountString)
    ELSE IF mode = "exact" /\ RLt(Whole(0), RSub(RSub(cap.v, otb), tbb))
    THEN Checked(TRUE, RDiv(RSub(RSub(cap.v, otb), tbb), perUnit),
                 Sprintf7(RDiv(RSub(RSub(cap.v, otb), tbb), perUnit)))
    ELSE Checked(FALSE, newAmountBeingSold, amountString)

\* "if keepSellingBase && keepSellingQuote": q is the quote check's outcome
\* keeping an operation without adding it to to-be-booked
keepOrDrop_tbbNotGrown(tbb, op, sellPrice, keepSellingBase, q) ==
    IF keepSellingBase /\ q.keep
    THEN Filtered(TRUE, [op EXCEPT !.Amount = q.Amount], tbb, "none")
    ELSE Filtered(FALSE, op, tbb, "none")

keepOrDrop(tbb, op, sellPrice, keepSellingBase, q) ==
    IF keepSellingBase /\ q.keep
    THEN Filtered(TRUE, [op EXCEPT !.Amount = q.Amount],
                  [base  |-> RAdd(tbb.base, q.newAmountBeingSold),
                   quote |-> RAdd(tbb.quote, RMul(q.newAmountBeingSold, sellPrice))],
                  "none")
    ELSE Filtered(FALSE, op, tbb, "none")

\* the quote-units check evaluated with the size as submitted
checkQuote_originalSize(cfg, otb, tbb, op, sellPrice, b) ==
    keepOrDrop(tbb, op, sellPrice, b.keep,
               capCheck(cfg.SellBaseAssetCapInQuoteUnits, cfg.mode, otb.quote, tbb.quote,
                        RMul(ParseFloat(op.Amount), sellPrice), sellPrice,
                        b.newAmountBeingSold, b.Amount))

\* the quote-units check, on the size the base-units check b left
checkQuote(cfg, otb, tbb, op, sellPrice, b) ==
    keepOrDrop(tbb, op, sellPrice, b.keep,
               capCheck(cfg.SellBaseAssetCapInQuoteUnits, cfg.mode, otb.quote, tbb.quote,
                        RMul(b.newAmountBeingSold, sellPrice), sellPrice,
                        b.newAmountBeingSold, b.Amount))

\* the "if isSell" branch
filterSell(cfg, otb, tbb, op, sellPrice, amountValueUnitsBeingSold) ==
    checkQuote(cfg, otb, tbb, op, sellPrice,
               capCheck(cfg.SellBaseAssetCapInBaseUnits, cfg.mode, otb.base, tbb.base,
                        amountValueUnitsBeingSold, Whole(1),
                        amountValueUnitsBeingSold, op.Amount))

\* volumeFilterFn(dailyOTB, dailyTBB, op): an operation that does not sell
\* the base asset falls through to "return nil, nil"
volumeFilterFn(cfg, otb, tbb, op) ==
    IF ~op.Price.ok \/ ~op.Amount.ok
    THEN Filtered(FALSE, op, tbb, "parse")
    ELSE IF op.Selling # "base"
    THEN Filtered(FALSE, op, tbb, "none")
    ELSE filterSell(cfg, otb, tbb, op, Rat(op.Price.n, op.Price.d), ParseFloat(op.Amount))

-----------------------------------------------------------------------------
(* volume filter: the state machine of Apply *)

Modes == {"exact", "ignore"}

\* the configurations makeFilterVolume accepts: base cap 100 or none, quote
\* cap 60 or none
Configs ==
    [SellBaseAssetCapInBaseUnits : {NoCap, Cap(100)},
     SellBaseAssetCapInQuoteUnits : {NoCap, Cap(60)},
     mode : Modes]

\* what the daily volume query can return
DailyVolumes ==
    { [base |-> Whole(0), quote |-> Whole(0)],
      [base |-> Whole(80), quote |-> Whole(20)],
      [base |-> Whole(80), quote |-> Whole(59)],
      [base |-> Whole(80), quote |-> Whole(60)],
      [base |-> Whole(120), quote |-> Whole(90)] }

Price(n, d) == [ok |-> TRUE, n |-> n, d |-> d]

\* the operations a call can be handed: sell 30 at 1.5, sell 10 at 3, a buy
\* (selling the quote asset), and a sell whose amount does not parse
SubmittedOps ==
    { [Selling |-> "base", Price |-> Price(3, 2), Amount |-> Str(300000000)],
      [Selling |-> "base", Price |-> Price(3, 1), Amount |-> Str(100000000)],
      [Selling |-> "quote", Price |-> Price(1, 2), Amount |-> Str(50000000)],
      [Selling |-> "base", Price |-> Price(3, 2), Amount |-> Garbled] }

NoOp == [Selling |-> "none", Price |-> Price(1, 1), Amount |-> Str(0)]

Zero == [base |-> Whole(0), quote |-> Whole(0)]

NotFiltered == [op |-> NoOp, tbb |-> Zero, kept |-> FALSE, returned |-> NoOp]

FilterIdle ==
    /\ dailyOTB = Zero
    /\ dailyTBB = Zero
    /\ pendingOps = <<>>
    /\ keptOps = <<>>
    /\ lastOp = NotFiltered
    /\ filterErr = "none"
    /\ filterPc = "idle"

\* isEmpty taking only the base-unit cap into account
isEmpty_baseOnly(c) == ~c.SellBaseAssetCapInBaseUnits.set

\* VolumeFilterConfig.isEmpty
isEmpty(c) ==
    IF c.SellBaseAssetCapInBaseUnits.set THEN FALSE
    ELSE IF c.SellBaseAssetCapInQuoteUnits.set THEN FALSE
    ELSE TRUE

\* VolumeFilterConfig.Validate: "none" for nil
Validate(c) == IF isEmpty(c) THEN "the volumeFilterConfig was empty" ELSE "none"

\* construction of the filter: the configuration is validated by the caller
\* of makeFilterVolume, which is outside the sources at hand; an invalid
\* configuration gives an error and no filter
filterVolume(c) == Validate(c) = "none"

\* the filter after construction: makeFilterVolume(..., config) takes the
\* validated configuration as it is
FilterInit ==
    /\ filterConfig \in Configs
    /\ filterMade = filterVolume(filterConfig)
    /\ FilterIdle

\* Apply up to the call of filterOps: the daily volume is queried once and
\* to-be-booked starts at zero
Apply ==
    /\ filterMade
    /\ filterPc \in {"idle", "returned"}
    /\ \E queryResult \in DailyVolumes, submitted \in SeqsUpTo(SubmittedOps, MaxOps) :
        /\ dailyOTB' = queryResult
        /\ pendingOps' = submitted
    /\ dailyTBB' = Zero
    /\ keptOps' = <<>>
    /\ lastOp' = NotFiltered
    /\ filterErr' = "none"
    /\ filterPc' = "filtering"
    /\ UNCHANGED <<filterConfig, filterMade>>
    /\ UNCHANGED <<mirrorVars, updateVars, twapVars, fillVars, filter64Vars, restVars>>

\* Apply when the daily volume query fails: no operations, an error
ApplyQueryFails ==
    /\ filterMade
    /\ filterPc \in {"idle", "returned"}
    /\ dailyOTB' = Zero
    /\ pendingOps' = <<>>
    /\ dailyTBB' = Zero
    /\ keptOps' = <<>>
    /\ lastOp' = NotFiltered
    /\ filterErr' = "query"
    /\ filterPc' = "returned"
    /\ UNCHANGED <<filterConfig, filterMade>>
    /\ UNCHANGED <<mirrorVars, updateVars, twapVars, fillVars, filter64Vars, restVars>>

\* filterOps hands the next operation to volumeFilterFn and keeps what it
\* returns; an error ends the call with no operations
FilterOp ==
    /\ filterPc = "filtering"
    /\ pendingOps # <<>>
    /\ \E r \in {volumeFilterFn(filterConfig, dailyOTB, dailyTBB, Head(pendingOps))} :
        /\ dailyTBB' = r.tbb
        /\ lastOp' = [op |-> Head(pendingOps), tbb |-> dailyTBB, kept |-> r.kept,
                      returned |-> IF r.kept THEN r.op ELSE NoOp]
        /\ IF r.e # "none"
           THEN /\ keptOps' = <<>>
                /\ pendingOps' = <<>>
                /\ filterErr' = "filter"
                /\ filterPc' = "returned"
           ELSE /\ keptOps' = IF r.kept THEN Append(keptOps, r.op) ELSE keptOps
                /\ pendingOps' = Tail(pendingOps)
                /\ UNCHANGED <<filterErr, filterPc>>
    /\ UNCHANGED <<filterConfig, filterMade, dailyOTB>>
    /\ UNCHANGED <<mirrorVars, updateVars, twapVars, fillVars, filter64Vars, restVars>>

\* Apply returns the kept operations
ApplyReturns ==
    /\ filterPc = "filtering"
    /\ pendingOps = <<>>
    /\ filterPc' = "returned"
    /\ UNCHANGED <<filterConfig, filterMade, dailyOTB, dailyTBB, pendingOps, keptOps, lastOp, filterErr>>
    /\ UNCHANGED <<mirrorVars, updateVars, twapVars, fillVars, filter64Vars, restVars>>

FilterNext == Apply \/ ApplyQueryFails \/ FilterOp \/ ApplyReturns

\* the volume filter at rest in the other machines
FilterUnused ==
    /\ filterConfig = [SellBaseAssetCapInBaseUnits |-> NoCap,
                       SellBaseAssetCapInQuoteUnits |-> NoCap, mode |-> "exact"]
    /\ filterMade = FALSE
    /\ FilterIdle

-----------------------------------------------------------------------------
(* float64: IEEE 754 doubles, rounded to nearest, ties to even *)

\* A natural number of any size is a sequence of limbs, the least significant
\* first, each limb in 0..Limb-1, without leading zero limbs; <<>> is 0.
Limb == 32768

LimbBits == 15

Pow2[n \in Nat] == IF n = 0 THEN 1 ELSE 2 * Pow2[n - 1]

\* the limbs of a machine integer n >= 0
RECURSIVE Big(_)
Big(n) == IF n = 0 THEN <<>> ELSE <<n % Limb>> \o Big(n \div Limb)

\* the machine integer of a small number
RECURSIVE Small(_)
Small(a) == IF a = <<>> THEN 0 ELSE Head(a) + Limb * Small(Tail(a))

RECURSIVE BTrim(_)
BTrim(a) ==
    IF a = <<>> THEN <<>>
    ELSE IF a[Len(a)] = 0 THEN BTrim(SubSeq(a, 1, Len(a) - 1))
    ELSE a

LimbAt(a, i) == IF i <= Len(a) THEN a[i] ELSE 0

\* a + b + c from limb i on
RECURSIVE BAddFrom(_, _, _, _)
BAddFrom(a, b, c, i) ==
    IF i > Len(a) /\ i > Len(b)
    THEN (IF c = 0 THEN <<>> ELSE <<c>>)
    ELSE <<(LimbAt(a, i) + LimbAt(b, i) + c) % Limb>>
         \o BAddFrom(a, b, (LimbAt(a, i) + LimbAt(b, i) + c) \div Limb, i + 1)

BAdd(a, b) == BAddFrom(a, b, 0, 1)

\* 2a + c for c in 0..1
BDouble(a, c) == BAddFrom(a, a, c, 1)

\* a - b - c from limb i on, for a >= b
RECURSIVE BSubFrom(_, _, _, _)
BSubFrom(a, b, c, i) ==
    IF i > Len(a) THEN <<>>
    ELSE <<(LimbAt(a, i) - LimbAt(b, i) - c + Limb) % Limb>>
         \o BSubFrom(a, b, IF LimbAt(a, i) - LimbAt(b, i) - c < 0 THEN 1 ELSE 0, i + 1)

BSub(a, b) == BTrim(BSubFrom(a, b, 0, 1))

\* -1, 0 or 1 as a < b, a = b or a > b, comparing from limb i down
RECURSIVE BCmpFrom(_, _, _)
BCmpFrom(a, b, i) ==
    IF i = 0 THEN 0
    ELSE IF a[i] < b[i] THEN -1
    ELSE IF a[i] > b[i] THEN 1
    ELSE BCmpFrom(a, b, i - 1)

BCmp(a, b) ==
    IF Len(a) < Len(b) THEN -1
    ELSE IF Len(a) > Len(b) THEN 1
    ELSE BCmpFrom(a, b, Len(a))

\* a * k + c for a limb k, from limb i on
RECURSIVE BMulLimbFrom(_, _, _, _)
BMulLimbFrom(a, k, c, i) ==
    IF i > Len(a)
    THEN (IF c = 0 THEN <<>> ELSE <<c>>)
    ELSE <<(a[i] * k + c) % Limb>> \o BMulLimbFrom(a, k, (a[i] * k + c) \div Limb, i + 1)

BMulLimb(a, k) == IF k = 0 THEN <<>> ELSE BMulLimbFrom(a, k, 0, 1)

\* a * b, from limb i of b on
RECURSIVE BMulFrom(_, _, _)
BMulFrom(a, b, i) ==
    IF i > Len(b) THEN <<>>
    ELSE BAdd(BMulLimb(a, b[i]), IF BMulFrom(a, b, i + 1) = <<>> THEN <<>> ELSE <<0>> \o BMulFrom(a, b, i + 1))

BMul(a, b) == IF a = <<>> THEN <<>> ELSE BMulFrom(a, b, 1)

\* the number of bits of a limb and of a number
RECURSIVE BitsOf(_)
BitsOf(n) == IF n = 0 THEN 0 ELSE 1 + BitsOf(n \div 2)

BitLen(a) == IF a = <<>> THEN 0 ELSE LimbBits * (Len(a) - 1) + BitsOf(a[Len(a)])

Zeros(n) == [k \in 1..n |-> 0]

\* a * 2^n
Shl(a, n) ==
    IF a = <<>> THEN <<>>
    ELSE Zeros(n \div LimbBits) \o BMulLimb(a, Pow2[n % LimbBits])

\* floor(a / k) for a limb k > 0, from limb i down with remainder r
RECURSIVE BDivLimbFrom(_, _, _, _)
BDivLimbFrom(a, k, r, i) ==
    IF i = 0 THEN <<>>
    ELSE BDivLimbFrom(a, k, (r * Limb + a[i]) % k, i - 1) \o <<(r * Limb + a[i]) \div k>>

\* floor(a / 2^n)
Shr(a, n) ==
    IF n \div LimbBits >= Len(a) THEN <<>>
    ELSE BTrim(BDivLimbFrom(SubSeq(a, n \div LimbBits + 1, Len(a)), Pow2[n % LimbBits], 0,
                            Len(a) - n \div LimbBits))

\* a / 2^n rounded to the nearest integer, ties to even: q is floor(a / 2^n)
\* and rest what the floor leaves
NearestOf(q, rest, half) ==
    IF BCmp(rest, half) > 0 \/ (BCmp(rest, half) = 0 /\ LimbAt(q, 1) % 2 = 1)
    THEN BAdd(q, <<1>>)
    ELSE q

ShrNearest(a, n) ==
    IF n = 0 THEN a
    ELSE NearestOf(Shr(a, n), BSub(a, Shl(Shr(a, n), n)), Shl(<<1>>, n - 1))

\* a float64: sign s in {-1, 0, 1}, value s * m * 2^e with 2^52 <= m < 2^53;
\* zero is the one value with s = 0. Infinities, NaN and subnormal numbers
\* are outside the values of this model.
F64(s, m, ex) == [s |-> s, m |-> m, e |-> ex]

FZero == F64(0, <<>>, 0)

\* a mantissa of 53 or 54 bits after rounding
Renormal(s, m, ex) == IF BitLen(m) > 53 THEN F64(s, Shr(m, 1), ex + 1) ELSE F64(s, m, ex)

\* the float64 nearest to s * n * 2^ex
FRound(s, n, ex) ==
    IF n = <<>> \/ s = 0 THEN FZero
    ELSE IF BitLen(n) <= 53 THEN F64(s, Shl(n, 53 - BitLen(n)), ex - (53 - BitLen(n)))
    ELSE Renormal(s, ShrNearest(n, BitLen(n) - 53), ex + (BitLen(n) - 53))

\* float64(n) for a machine integer
FInt(n) == FRound(IF n < 0 THEN -1 ELSE IF n = 0 THEN 0 ELSE 1, Big(IF n < 0 THEN -n ELSE n), 0)

\* s1 * n1 + s2 * n2 at the exponent ex, n1 and n2 aligned
FSum(s1, n1, s2, n2, ex) ==
    IF s1 = s2 THEN FRound(s1, BAdd(n1, n2), ex)
    ELSE IF BCmp(n1, n2) = 0 THEN FZero
    ELSE IF BCmp(n1, n2) > 0 THEN FRound(s1, BSub(n1, n2), ex)
    ELSE FRound(s2, BSub(n2, n1), ex)

\* a + b
FAdd(a, b) ==
    IF a.s = 0 THEN b
    ELSE IF b.s = 0 THEN a
    ELSE IF a.e <= b.e THEN FSum(a.s, a.m, b.s, Shl(b.m, b.e - a.e), a.e)
    ELSE FSum(a.s, Shl(a.m, a.e - b.e), b.s, b.m, b.e)

FNeg(a) == F64(-a.s, a.m, a.e)

\* a - b
FSub(a, b) == FAdd(a, FNeg(b))

\* a * b
FMul(a, b) == FRound(a.s * b.s, BMul(a.m, b.m), a.e + b.e)

\* the first k bits of n / d after those of q, for a remainder r < d, with a
\* last bit set when the division leaves a remainder
QuotientBits[q \in Seq(Nat), r \in Seq(Nat), d \in Seq(Nat), k \in Nat] ==
    IF k = 0 THEN BDouble(q, IF r = <<>> THEN 0 ELSE 1)
    ELSE IF BCmp(BDouble(r, 0), d) >= 0
    THEN QuotientBits[BDouble(q, 1), BSub(BDouble(r, 0), d), d, k - 1]
    ELSE QuotientBits[BDouble(q, 0), BDouble(r, 0), d, k - 1]

\* a / b for b # 0
FDiv(a, b) ==
    IF a.s = 0 THEN FZero
    ELSE IF BCmp(a.m, b.m) >= 0
    THEN FRound(a.s * b.s, QuotientBits[<<1>>, BSub(a.m, b.m), b.m, 55], a.e - b.e - 56)
    ELSE FRound(a.s * b.s, QuotientBits[<<>>, a.m, b.m, 55], a.e - b.e - 56)

\* -1, 0 or 1 as a < b, a = b or a > b
FCmp(a, b) == FSub(a, b).s

FLe(a, b) == FCmp(a, b) <= 0

FLt(a, b) == FCmp(a, b) < 0

\* the float64 of the decimal n / 10^7 (strconv.ParseFloat of seven decimals)
FDecimal7(n) == FDiv(FInt(n), FInt(10000000))

\* the float64 of the fraction n / d of machine integers
FRatio(n, d) == FDiv(FInt(n), FInt(d))

\* x * 10^7 rounded to the nearest integer, for x >= 0 below 2^31 / 10^7
FScaled7(x) ==
    IF x.s = 0 THEN 0
    ELSE IF x.e >= 0 THEN Small(Shl(BMul(x.m, Big(10000000)), x.e))
    ELSE Small(ShrNearest(BMul(x.m, Big(10000000)), -x.e))

-----------------------------------------------------------------------------
(* volume filter in float64: volumeFilterFn with every operation rounded as
   the code rounds it. The machine of Apply above computes with exact
   fractions; here each +, -, * and / is the float64 operation. *)

\* what volumeFilterFn gives back, and whether it shrank the operation
Filtered64(kept, op, tbb, err, shrunk) ==
    [kept |-> kept, op |-> op, tbb |-> tbb, e |-> err, shrunk |-> shrunk]

\* fmt.Sprintf("%.7f", x)
Sprintf64(x) == Str(FScaled7(x))

\* one cap's check of volumeFilterFn: projected := otb + tbb + contribution,
\* keep := projected <= cap, and in exact mode newAmount := (cap - otb - tbb)
\* / perUnit, taken when it is > 0 (perUnit is 1 for the base-units cap,
\* sellPrice for the quote-units cap)
capCheck64(cap, mode, otb, tbb, contribution, perUnit, newAmountBeingSold, amountString) ==
    IF ~cap.set
    THEN Checked(TRUE, newAmountBeingSold, amountString)
    ELSE IF FLe(FAdd(FAdd(otb, tbb), contribution), cap.v)
    THEN Checked(TRUE, newAmountBeingSold, amountString)
    ELSE IF mode = "exact" /\ FLt(FZero, FDiv(FSub(FSub(cap.v, otb), tbb), perUnit))
    THEN Checked(TRUE, FDiv(FSub(FSub(cap.v, otb), tbb), perUnit),
                 Sprintf64(FDiv(FSub(FSub(cap.v, otb), tbb), perUnit)))
    ELSE Checked(FALSE, newAmountBeingSold, amountString)

\* "if keepSellingBase && keepSellingQuote": to-be-booked grows by
\* newAmountBeingSold and by newAmountBeingSold * sellPrice
keepOrDrop64(tbb, op, sellPrice, keepSellingBase, q, amountValueUnitsBeingSold) ==
    IF keepSellingBase /\ q.keep
    THEN Filtered64(TRUE, [op EXCEPT !.Amount = q.Amount],
                    [base  |-> FAdd(tbb.base, q.newAmountBeingSold),
                     quote |-> FAdd(tbb.quote, FMul(q.newAmountBeingSold, sellPrice))],
                    "none", q.newAmountBeingSold # amountValueUnitsBeingSold)
    ELSE Filtered64(FALSE, op, tbb, "none", FALSE)

\* the quote-units check, on the size the base-units check b left
checkQuote64(cfg, otb, tbb, op, sellPrice, b, amountValueUnitsBeingSold) ==
    keepOrDrop64(tbb, op, sellPrice, b.keep,
                 capCheck64(cfg.SellBaseAssetCapInQuoteUnits, cfg.mode, otb.quote, tbb.quote,
                            FMul(b.newAmountBeingSold, sellPrice), sellPrice,
                            b.newAmountBeingSold, b.Amount),
                 amountValueUnitsBeingSold)

\* the "if isSell" branch
filterSell64(cfg, otb, tbb, op, sellPrice, amountValueUnitsBeingSold) ==
    checkQuote64(cfg, otb, tbb, op, sellPrice,
                 capCheck64(cfg.SellBaseAssetCapInBaseUnits, cfg.mode, otb.base, tbb.base,
                            amountValueUnitsBeingSold, FInt(1),
                            amountValueUnitsBeingSold, op.Amount),
                 amountValueUnitsBeingSold)

\* volumeFilterFn(dailyOTB, dailyTBB, op) in float64
volumeFilterFn64(cfg, otb, tbb, op) ==
    IF ~op.Price.ok \/ ~op.Amount.ok
    THEN Filtered64(FALSE, op, tbb, "parse", FALSE)
    ELSE IF op.Selling # "base"
    THEN Filtered64(FALSE, op, tbb, "none", FALSE)
    ELSE filterSell64(cfg, otb, tbb, op, FRatio(op.Price.n, op.Price.d), FDecimal7(op.Amount.v))

\* an optional cap as a float64
Cap64(n) == [set |-> TRUE, v |-> FInt(n)]

NoCap64 == [set |-> FALSE, v |-> FZero]

\* the configurations makeFilterVolume accepts: base cap 100 or none, quote
\* cap 60 or none, and one of them at least
Configs64 ==
    { c \in [SellBaseAssetCapInBaseUnits : {NoCap64, Cap64(100)},
             SellBaseAssetCapInQuoteUnits : {NoCap64, Cap64(60)},
             mode : Modes] : filterVolume(c) }

Volumes64(base, quote) == [base |-> FInt(base), quote |-> FInt(quote)]

\* what the daily volume query can return
DailyVolumes64 == { Volumes64(0, 0), Volumes64(80, 59), Volumes64(90, 15), Volumes64(120, 90) }

\* the operations a call can be handed: sells of 30 at 49, at 2.99 and at
\* 1.5, a sell of 10 at 3, a buy, and a sell whose amount does not parse
SubmittedOps64 ==
    { [Selling |-> "base", Price |-> Price(49, 1), Amount |-> Str(300000000)],
      [Selling |-> "base", Price |-> Price(299, 100), Amount |-> Str(300000000)],
      [Selling |-> "base", Price |-> Price(3, 2), Amount |-> Str(300000000)],
      [Selling |-> "base", Price |-> Price(3, 1), Amount |-> Str(100000000)],
      [Selling |-> "quote", Price |-> Price(1, 2), Amount |-> Str(50000000)],
      [Selling |-> "base", Price |-> Price(3, 2), Amount |-> Garbled] }

Zero64 == Volumes64(0, 0)

NotFiltered64 ==
    [op |-> NoOp, tbb |-> Zero64, kept |-> FALSE, returned |-> NoOp, shrunk |-> FALSE,
     afterShrunk |-> FALSE]

Filter64Idle ==
    /\ config64 = [SellBaseAssetCapInBaseUnits |-> NoCap64,
                   SellBaseAssetCapInQuoteUnits |-> NoCap64, mode |-> "exact"]
    /\ dailyOTB64 = Zero64
    /\ dailyTBB64 = Zero64
    /\ pendingOps64 = <<>>
    /\ keptOps64 = <<>>
    /\ lastOp64 = NotFiltered64
    /\ filterErr64 = "none"
    /\ filterPc64 = "idle"

\* the filter after construction with a validated configuration
Filter64Init ==
    /\ config64 \in Configs64
    /\ dailyOTB64 = Zero64
    /\ dailyTBB64 = Zero64
    /\ pendingOps64 = <<>>
    /\ keptOps64 = <<>>
    /\ lastOp64 = NotFiltered64
    /\ filterErr64 = "none"
    /\ filterPc64 = "idle"

\* one call of Apply, up to the call of filterOps: the daily volume is
\* queried once and to-be-booked starts at zero
Apply64 ==
    /\ filterPc64 = "idle"
    /\ \E queryResult \in DailyVolumes64, submitted \in SeqsUpTo(SubmittedOps64, MaxOps) :
        /\ dailyOTB64' = queryResult
        /\ pendingOps64' = submitted
    /\ dailyTBB64' = Zero64
    /\ keptOps64' = <<>>
    /\ lastOp64' = NotFiltered64
    /\ filterErr64' = "none"
    /\ filterPc64' = "filtering"
    /\ UNCHANGED config64
    /\ UNCHANGED <<mirrorVars, updateVars, filterVars, twapVars, fillVars, restVars>>

\* Apply when the daily volume query fails: no operations, an error
ApplyQueryFails64 ==
    /\ filterPc64 = "idle"
    /\ dailyOTB64' = Zero64
    /\ pendingOps64' = <<>>
    /\ dailyTBB64' = Zero64
    /\ keptOps64' = <<>>
    /\ lastOp64' = NotFiltered64
    /\ filterErr64' = "query"
    /\ filterPc64' = "returned"
    /\ UNCHANGED config64
    /\ UNCHANGED <<mirrorVars, updateVars, filterVars, twapVars, fillVars, restVars>>

\* filterOps hands the next operation to volumeFilterFn and keeps what it
\* returns; an error ends the call with no operations. lastOp64 records the
\* operation, to-be-booked before it, and whether an operation kept before
\* it in this call had been shrunk
FilterOp64 ==
    /\ filterPc64 = "filtering"
    /\ pendingOps64 # <<>>
    /\ \E r \in {volumeFilterFn64(config64, dailyOTB64, dailyTBB64, Head(pendingOps64))} :
        /\ dailyTBB64' = r.tbb
        /\ lastOp64' = [op |-> Head(pendingOps64), tbb |-> dailyTBB64, kept |-> r.kept,
                        returned |-> IF r.kept THEN r.op ELSE NoOp,
                        shrunk |-> r.shrunk,
                        afterShrunk |-> lastOp64.shrunk \/ lastOp64.afterShrunk]
        /\ IF r.e # "none"
           THEN /\ keptOps64' = <<>>
                /\ pendingOps64' = <<>>
                /\ filterErr64' = "filter"
                /\ filterPc64' = "returned"
           ELSE /\ keptOps64' = IF r.kept THEN Append(keptOps64, r.op) ELSE keptOps64
                /\ pendingOps64' = Tail(pendingOps64)
                /\ UNCHANGED <<filterErr64, filterPc64>>
    /\ UNCHANGED <<config64, dailyOTB64>>
    /\ UNCHANGED <<mirrorVars, updateVars, filterVars, twapVars, fillVars, restVars>>

\* Apply returns the kept operations
ApplyReturns64 ==
    /\ filterPc64 = "filtering"
    /\ pendingOps64 = <<>>
    /\ filterPc64' = "returned"
    /\ UNCHANGED <<config64, dailyOTB64, dailyTBB64, pendingOps64, keptOps64, lastOp64, filterErr64>>
    /\ UNCHANGED <<mirrorVars, updateVars, filterVars, twapVars, fillVars, restVars>>

Filter64Next == Apply64 \/ ApplyQueryFails64 \/ FilterOp64 \/ ApplyReturns64

-----------------------------------------------------------------------------
(* TWAP sell scheduler: configuration, buckets and rounds *)

secondsInHour == 3600

secondsInDay == 24 * secondsInHour

\* p.orderConstraints of the provider's market
orderConstraints == [PricePrecision |-> 7, VolumePrecision |-> 7]

\* nil for p.activeBucket and p.previousRoundID
NoBucket == [ID |-> -1]

NoRound == -1

\* math.Ceil(a / b) for integers a >= 0 and b > 0
CeilDiv(a, b) == (a + b - 1) \div b

\* math.Ceil(x) for x >= 0
Ceil(x) == CeilDiv(x.n, x.d)

\* math.Pow(r, n) for an integer n >= 0
RECURSIVE RPow(_, _)
RPow(r, n) == IF n = 0 THEN Whole(1) ELSE RMul(r, RPow(r, n - 1))

\* a / b for b # 0
RQuot(a, b) == IF b.n > 0 THEN RDiv(a, b) ELSE Rat(-(a.n * b.d), a.d * (-b.n))

\* round(x * 10^precision) for x >= 0, halves away from zero
RoundedAt(x, d) == d.q + (IF 2 * d.r >= x.d THEN 1 ELSE 0)

\* model.NumberFromFloat(x, precision): x rounded to the precision
NumberFromFloat(x, precision) ==
    IF x.n >= 0
    THEN Num(RoundedAt(x, LongDiv[x.n \div x.d, x.n % x.d, x.d, precision]), precision)
    ELSE Num(-RoundedAt(x, LongDiv[(-x.n) \div x.d, (-x.n) % x.d, x.d, precision]), precision)

\* the value of a Number as a fraction
NumberValue(n) == Rat(n.v, Pow10[n.p])

\* a volume filter of the provider's dowFilter: whether it sells the base
\* asset, and its cap in base units
VolFilter(sellingBase, cap) == [sellingBase |-> sellingBase, cap |-> cap]

\* volumeFilter.mustGetBaseAssetCapInBaseUnits
mustGetBaseAssetCapInBaseUnits(f) == [ok |-> f.cap.set, v |-> f.cap.v]

\* the factory without the check that the bucket duration divides the day
makeSellTwapLevelProvider_anyDuration(c) ==
    IF c.numHoursToSell <= 0 \/ c.numHoursToSell > 24 THEN "numHoursToSell"
    ELSE IF c.parentBucketSizeSeconds <= 0 \/ c.parentBucketSizeSeconds > secondsInDay
    THEN "parentBucketSizeSeconds"
    ELSE IF \E i \in DOMAIN c.dowFilter : ~c.dowFilter[i].sellingBase THEN "dowFilter"
    ELSE "none"

\* the checks of makeSellTwapLevelProvider, in order: "none" for a provider
makeSellTwapLevelProvider(c) ==
    IF c.numHoursToSell <= 0 \/ c.numHoursToSell > 24 THEN "numHoursToSell"
    ELSE IF c.parentBucketSizeSeconds <= 0 \/ c.parentBucketSizeSeconds > secondsInDay
    THEN "parentBucketSizeSeconds"
    ELSE IF (secondsInDay % c.parentBucketSizeSeconds) # 0 THEN "divide"
    ELSE IF \/ RLt(c.distributeSurplusOverRemainingIntervalsPercentCeiling, Whole(0))
            \/ RLt(Whole(1), c.distributeSurplusOverRemainingIntervalsPercentCeiling)
    THEN "distributeSurplusOverRemainingIntervalsPercentCeiling"
    ELSE IF \/ RLt(c.exponentialSmoothingFactor, Whole(0))
            \/ RLt(Whole(1), c.exponentialSmoothingFactor)
    THEN "exponentialSmoothingFactor"
    ELSE IF \/ RLt(c.minChildOrderSizePercentOfParent, Whole(0))
            \/ RLt(Whole(1), c.minChildOrderSizePercentOfParent)
    THEN "minChildOrderSizePercentOfParent"
    ELSE IF \E i \in DOMAIN c.dowFilter : ~c.dowFilter[i].sellingBase THEN "dowFilter"
    ELSE "none"

\* time.Time as day and second of the day
Time(day, sec) == [day |-> day, sec |-> sec]

Unix(t) == t.day * secondsInDay + t.sec

Weekday(t) == t.day % 7

\* floorDate(t) and ceilDate(t), as Unix seconds
floorDate(t) == t.day * secondsInDay

ceilDate(t) == (t.day + 1) * secondsInDay

\* bucketInfo.dayBaseRemaining and bucketInfo.baseRemaining
dayBaseRemaining(b) == RSub(b.dayBaseCapacity, b.dynamicValues.dayBaseSold)

baseRemaining(b) == RSub(b.baseCapacity, b.dynamicValues.baseSold)

dynamicBucketValues(isNew, rID, dayBaseSold, baseSold) ==
    [isNew |-> isNew, roundID |-> rID, dayBaseSold |-> dayBaseSold, baseSold |-> baseSold]

\* what a bucket-making function returns: the bucket or an error, and the
\* transition that made it
Made(via, bucket, err) == [via |-> via, bucket |-> bucket, e |-> err]

\* the targeted buckets, rounded down
totalBucketsTargeted_floor(p) ==
    (p.numHoursToSell * secondsInHour) \div p.parentBucketSizeSeconds

\* totalBucketsTargeted of makeFirstBucketFrame
totalBucketsTargeted(p) ==
    CeilDiv(p.numHoursToSell * secondsInHour, p.parentBucketSizeSeconds)

\* the bucketInfo literal of makeFirstBucketFrame
bucketFrame(p, now, bID, rID, dayBaseCapacity, dayBaseSoldStart, baseCapacity) ==
    [ID                   |-> bID,
     startTime            |-> floorDate(now),
     endTime              |-> ceilDate(now),
     totalBuckets         |-> CeilDiv(ceilDate(now) - floorDate(now), p.parentBucketSizeSeconds),
     totalBucketsTargeted |-> totalBucketsTargeted(p),
     dayBaseSoldStart     |-> dayBaseSoldStart,
     dayBaseCapacity      |-> dayBaseCapacity,
     baseSurplusIncluded  |-> Whole(0),
     baseCapacity         |-> baseCapacity,
     minOrderSizeBase     |-> RMul(p.minChildOrderSizePercentOfParent, baseCapacity),
     dynamicValues        |-> dynamicBucketValues(TRUE, rID, dayBaseSoldStart, Whole(0))]

\* makeFirstBucketFrame: the cap and the daily volume are fetched, either
\* can fail
makeFirstBucketFrame(p, now, volFilter, queried, bID, rID) ==
    IF ~mustGetBaseAssetCapInBaseUnits(volFilter).ok THEN Made("first", NoBucket, "cap")
    ELSE IF ~queried.ok THEN Made("first", NoBucket, "query")
    ELSE Made("first",
              bucketFrame(p, now, bID, rID, volFilter.cap.v, queried.baseVol,
                          RDiv(volFilter.cap.v, Whole(totalBucketsTargeted(p)))),
              "none")

\* the same-bucket transition taking the queried volume as the new baseline
updateExistingBucket_rebased(active, queried, rID) ==
    IF ~queried.ok THEN Made("same", NoBucket, "query")
    ELSE Made("same",
              [active EXCEPT !.dayBaseSoldStart = queried.baseVol,
                             !.dynamicValues =
                                 dynamicBucketValues(FALSE, rID, queried.baseVol, Whole(0))],
              "none")

\* updateExistingBucket: a copy of the active bucket with new dynamic values
updateExistingBucket(active, queried, rID) ==
    IF ~queried.ok THEN Made("same", NoBucket, "query")
    ELSE Made("same",
              [active EXCEPT !.dynamicValues =
                  dynamicBucketValues(FALSE, rID, queried.baseVol,
                                      RSub(queried.baseVol, active.dayBaseSoldStart))],
              "none")

\* the surplus spread evenly over the remaining buckets
firstDistributionOfBaseSurplus_even(p, totalSurplus, totalRemainingBuckets) ==
    RDiv(totalSurplus, Whole(totalRemainingBuckets))

\* the divisor of firstDistributionOfBaseSurplus: r^n - 1 with
\* n = ceil(ceiling * remaining buckets)
surplusDivisor(p, totalRemainingBuckets) ==
    RSub(RPow(p.exponentialSmoothingFactor,
              Ceil(RMul(p.distributeSurplusOverRemainingIntervalsPercentCeiling,
                        Whole(totalRemainingBuckets)))),
         Whole(1))

\* firstDistributionOfBaseSurplus: a = Sn * (r - 1) / (r^n - 1)
firstDistributionOfBaseSurplus(p, totalSurplus, totalRemainingBuckets) ==
    RQuot(RMul(totalSurplus, RSub(p.exponentialSmoothingFactor, Whole(1))),
          surplusDivisor(p, totalRemainingBuckets))

\* the end of cutoverToNewBucket: the surplus is added to the capacity
surplusIncluded(bucket, baseSurplusIncluded) ==
    [bucket EXCEPT !.baseSurplusIncluded = baseSurplusIncluded,
                   !.baseCapacity = RAdd(bucket.baseCapacity, baseSurplusIncluded)]

\* cutoverToNewBucket after the first bucket frame was made: the new bucket
\* starts from the day's volume at the end of the previous bucket
cutover(p, bucket, bID, rID, thisBucketDayBaseSoldStart) ==
    surplusIncluded(
        [bucket EXCEPT !.dayBaseSoldStart = thisBucketDayBaseSoldStart,
                       !.dynamicValues =
                           dynamicBucketValues(TRUE, rID, bucket.dayBaseSoldStart,
                               RSub(bucket.dayBaseSoldStart, thisBucketDayBaseSoldStart))],
        firstDistributionOfBaseSurplus(p,
            RSub(RMul(bucket.baseCapacity, Whole(bID)), thisBucketDayBaseSoldStart),
            bucket.totalBuckets - bID))

\* the part of cutoverToNewBucket after the check of the bucket id
cutoverFrom(p, active, bID, rID, first) ==
    IF first.e # "none" THEN Made("new", NoBucket, first.e)
    ELSE Made("new", cutover(p, first.bucket, bID, rID, active.dynamicValues.dayBaseSold), "none")

\* the cutover accepting any new bucket id
cutoverToNewBucket_anyJump(p, active, now, volFilter, queried, bID, rID) ==
    cutoverFrom(p, active, bID, rID, makeFirstBucketFrame(p, now, volFilter, queried, bID, rID))

\* cutoverToNewBucket
cutoverToNewBucket(p, active, now, volFilter, queried, bID, rID) ==
    IF bID # active.ID + 1 THEN Made("none", NoBucket, "jump")
    ELSE cutoverFrom(p, active, bID, rID,
                     makeFirstBucketFrame(p, now, volFilter, queried, bID, rID))

\* bID of makeBucketInfo
bucketID(p, now) == (Unix(now) - floorDate(now)) \div p.parentBucketSizeSeconds

\* makeBucketInfo
makeBucketInfo(p, active, now, volFilter, queried, rID) ==
    IF active = NoBucket
    THEN makeFirstBucketFrame(p, now, volFilter, queried, bucketID(p, now), rID)
    ELSE IF bucketID(p, now) = active.ID
    THEN updateExistingBucket(active, queried, rID)
    ELSE cutoverToNewBucket(p, active, now, volFilter, queried, bucketID(p, now), rID)

\* makeRoundID starting again from the previous id
makeRoundID_repeated(previous) == IF previous = NoRound THEN 0 ELSE previous

\* makeRoundID
makeRoundID(previous) == IF previous = NoRound THEN 0 ELSE previous + 1

\* the size of a round that always sells the minimum child-order size
sizeBaseCapped_minimum(bucket, random) == bucket.minOrderSizeBase

\* sizeBaseCapped of makeRoundInfo
sizeBaseCapped(bucket, random) ==
    IF RLe(baseRemaining(bucket), bucket.minOrderSizeBase)
    THEN baseRemaining(bucket)
    ELSE RAdd(bucket.minOrderSizeBase,
              RMul(random, RSub(baseRemaining(bucket), bucket.minOrderSizeBase)))

NoRoundInfo == [ID |-> NoRound]

\* makeRoundInfo: the price feed can fail
makeRoundInfo(rID, now, bucket, random, price) ==
    IF ~price.ok THEN [round |-> NoRoundInfo, e |-> "price"]
    ELSE [round |-> [ID |-> rID,
                     bucketID |-> bucket.ID,
                     now |-> now,
                     secondsElapsedToday |-> Unix(now) - bucket.startTime,
                     sizeBaseCapped |-> sizeBaseCapped(bucket, random),
                     price |-> price.v],
          e |-> "none"]

\* the one level GetLevels returns for a round
Level(round) ==
    [Price  |-> NumberFromFloat(round.price, orderConstraints.PricePrecision),
     Amount |-> NumberFromFloat(round.sizeBaseCapped, orderConstraints.VolumePrecision)]

-----------------------------------------------------------------------------
(* TWAP sell scheduler: the state machine of GetLevels *)

SellingCap(n) == VolFilter(TRUE, Cap(n))

\* a dowFilter, indexed by time.Weekday
EveryDay(f) == [d \in 0..6 |-> f]

\* sell over 13 hours in buckets of 6 hours, at most 50 a day
BaseTwapConfig ==
    [numHoursToSell |-> 13,
     parentBucketSizeSeconds |-> 21600,
     distributeSurplusOverRemainingIntervalsPercentCeiling |-> Whole(1),
     exponentialSmoothingFactor |-> Rat(1, 2),
     minChildOrderSizePercentOfParent |-> Rat(1, 2),
     dowFilter |-> EveryDay(SellingCap(50))]

\* configurations makeSellTwapLevelProvider accepts; the smoothing factor is
\* below 1 and the distribution ceiling above 0 in all of them, so that the
\* divisor r^n - 1 of firstDistributionOfBaseSurplus is not 0
ValidTwapConfigs ==
    { BaseTwapConfig,
      [BaseTwapConfig EXCEPT !.numHoursToSell = 24,
                             !.parentBucketSizeSeconds = 43200,
                             !.distributeSurplusOverRemainingIntervalsPercentCeiling = Rat(1, 2),
                             !.minChildOrderSizePercentOfParent = Whole(0)],
      [BaseTwapConfig EXCEPT !.exponentialSmoothingFactor = Rat(1, 4),
                             !.dowFilter =
          [d \in 0..6 |-> IF d = 1 THEN VolFilter(TRUE, NoCap) ELSE SellingCap(50)]] }

\* configurations with one argument out of range
InvalidTwapConfigs ==
    { [BaseTwapConfig EXCEPT !.numHoursToSell = 0],
      [BaseTwapConfig EXCEPT !.numHoursToSell = 25],
      [BaseTwapConfig EXCEPT !.parentBucketSizeSeconds = 0],
      [BaseTwapConfig EXCEPT !.parentBucketSizeSeconds = 172800],
      [BaseTwapConfig EXCEPT !.parentBucketSizeSeconds = 50000],
      [BaseTwapConfig EXCEPT !.distributeSurplusOverRemainingIntervalsPercentCeiling = Rat(3, 2)],
      [BaseTwapConfig EXCEPT !.exponentialSmoothingFactor = Rat(-1, 2)],
      [BaseTwapConfig EXCEPT !.minChildOrderSizePercentOfParent = Rat(3, 2)],
      [BaseTwapConfig EXCEPT !.dowFilter =
          [d \in 0..6 |-> IF d = 3 THEN VolFilter(FALSE, Cap(50)) ELSE SellingCap(50)]] }

TwapConfigs == ValidTwapConfigs \cup InvalidTwapConfigs

\* what volFilter.dailyValuesByDate can return: an error, or the base volume
\* sold today
QueryResults ==
    { [ok |-> FALSE, baseVol |-> Whole(0)] }
        \cup { [ok |-> TRUE, baseVol |-> Whole(v)] : v \in {0, 10, 48} }

\* what the price feed can return, after the provider's offset: an error or
\* a price
FeedPrices == { [ok |-> FALSE, v |-> Whole(0)], [ok |-> TRUE, v |-> Rat(3, 2)] }

\* values of p.random.Float64(), in [0, 1)
Randoms == { Whole(0), Rat(1, 2) }

\* the seconds between two calls of GetLevels
Elapsed == { 0, 21600, 43200 }

Later(t, dt) == Time(t.day + (t.sec + dt) \div secondsInDay, (t.sec + dt) % secondsInDay)

\* the record of a call of GetLevels
Call(now, before, rID, queried, via, err, bucket, round, levels) ==
    [now |-> now, before |-> before, rID |-> rID, queried |-> queried, via |-> via,
     e |-> err, bucket |-> bucket, round |-> round, levels |-> levels]

NoCall ==
    Call(Time(0, 0), NoBucket, NoRound, [ok |-> FALSE, baseVol |-> Whole(0)], "none",
         "none", NoBucket, NoRoundInfo, <<>>)

\* no provider
TwapIdle ==
    /\ twapConfig = BaseTwapConfig
    /\ twapMade = FALSE
    /\ clock = Time(0, 0)
    /\ activeBucket = NoBucket
    /\ previousRoundID = NoRound
    /\ lastCall = NoCall
    /\ levelRounds = <<>>

\* the provider after makeSellTwapLevelProvider, at the start of the first
\* day: no active bucket, no previous round
TwapInit ==
    /\ twapConfig \in TwapConfigs
    /\ twapMade = (makeSellTwapLevelProvider(twapConfig) = "none")
    /\ clock = Time(0, 0)
    /\ activeBucket = NoBucket
    /\ previousRoundID = NoRound
    /\ lastCall = NoCall
    /\ levelRounds = <<>>

\* GetLevels saving the bucket as soon as it is made, before the round
GetLevels_savesBucketFirst ==
    /\ twapMade
    /\ previousRoundID < MaxRounds
    /\ \E dt \in Elapsed, queried \in QueryResults :
        /\ Later(clock, dt).day <= MaxDays
        /\ clock' = Later(clock, dt)
        /\ \E now \in {Later(clock, dt)}, rID \in {makeRoundID(previousRoundID)} :
            \E made \in {makeBucketInfo(twapConfig, activeBucket, now, twapConfig.dowFilter[Weekday(now)], queried, rID)} :
                IF made.e # "none"
                THEN /\ lastCall' = Call(now, activeBucket, rID, queried, made.via, made.e,
                                         NoBucket, NoRoundInfo, <<>>)
                     /\ UNCHANGED <<activeBucket, previousRoundID, levelRounds>>
                ELSE \E price \in FeedPrices, random \in Randoms :
                    \E r \in {makeRoundInfo(rID, now, made.bucket, random, price)} :
                    IF r.e # "none"
                    THEN /\ lastCall' = Call(now, activeBucket, rID, queried, made.via, r.e,
                                             made.bucket, NoRoundInfo, <<>>)
                         /\ activeBucket' = made.bucket
                         /\ UNCHANGED <<previousRoundID, levelRounds>>
                    ELSE /\ activeBucket' = made.bucket
                         /\ previousRoundID' = r.round.ID
                         /\ levelRounds' = Append(levelRounds, r.round.ID)
                         /\ lastCall' = Call(now, activeBucket, rID, queried, made.via, "none",
                                             made.bucket, r.round, <<Level(r.round)>>)
    /\ UNCHANGED <<twapConfig, twapMade>>
    /\ UNCHANGED <<mirrorVars, updateVars, filterVars, fillVars, filter64Vars, restVars>>

\* GetLevels: the round id, the bucket, the round; the bucket and the round
\* id are saved only when both were made, and then one level is returned
GetLevels ==
    /\ twapMade
    /\ previousRoundID < MaxRounds
    /\ \E dt \in Elapsed, queried \in QueryResults :
        /\ Later(clock, dt).day <= MaxDays
        /\ clock' = Later(clock, dt)
        /\ \E now \in {Later(clock, dt)}, rID \in {makeRoundID(previousRoundID)} :
            \E made \in {makeBucketInfo(twapConfig, activeBucket, now, twapConfig.dowFilter[Weekday(now)], queried, rID)} :
                IF made.e # "none"
                THEN /\ lastCall' = Call(now, activeBucket, rID, queried, made.via, made.e,
                                         NoBucket, NoRoundInfo, <<>>)
                     /\ UNCHANGED <<activeBucket, previousRoundID, levelRounds>>
                ELSE \E price \in FeedPrices, random \in Randoms :
                    \E r \in {makeRoundInfo(rID, now, made.bucket, random, price)} :
                    IF r.e # "none"
                    THEN /\ lastCall' = Call(now, activeBucket, rID, queried, made.via, r.e,
                                             made.bucket, NoRoundInfo, <<>>)
                         /\ UNCHANGED <<activeBucket, previousRoundID, levelRounds>>
                    ELSE /\ activeBucket' = made.bucket
                         /\ previousRoundID' = r.round.ID
                         /\ levelRounds' = Append(levelRounds, r.round.ID)
                         /\ lastCall' = Call(now, activeBucket, rID, queried, made.via, "none",
                                             made.bucket, r.round, <<Level(r.round)>>)
    /\ UNCHANGED <<twapConfig, twapMade>>
    /\ UNCHANGED <<mirrorVars, updateVars, filterVars, fillVars, filter64Vars, restVars>>

TwapNext == GetLevels

-----------------------------------------------------------------------------
(* mirror strategy: the fill handler (HandleFill, baseVolumeToOffset) *)

NoHolder == 0

OrderActions == {"buy", "sell"}

\* OrderAction.Reverse
Reverse(action) == IF action = "buy" THEN "sell" ELSE "buy"

\* Number.Add and Number.Subtract of two numbers of the same precision
NumAdd(a, b) == Num(a.v + b.v, a.p)

NumSubtract(a, b) == Num(a.v - b.v, a.p)

\* model.NumberConstants.Zero
NumberZero == Num(0, 7)

makeAssetSurplus == [total |-> NumberZero, committed |-> NumberZero]

\* what baseVolumeToOffset returns
Offset(newVolume, ok) == [newVolume |-> newVolume, ok |-> ok]

\* baseVolumeToOffset never skipping
offsetOf_neverSkips(uncommittedBase) ==
    IF LessFloat[backingConstraints.MinBaseVolume, uncommittedBase]
    THEN Offset(NumberByCappingPrecision[uncommittedBase, backingConstraints.VolumePrecision], TRUE)
    ELSE Offset(NumberByCappingPrecision[backingConstraints.MinBaseVolume,
                                         backingConstraints.VolumePrecision], TRUE)

\* baseVolumeToOffset skipping below a quarter of the minimum only
offsetOf_skipsBelowQuarter(uncommittedBase) ==
    IF LessFloat[uncommittedBase, Scale[backingConstraints.MinBaseVolume, 1, 4]]
    THEN Offset(NumberZero, FALSE)
    ELSE IF LessFloat[backingConstraints.MinBaseVolume, uncommittedBase]
    THEN Offset(NumberByCappingPrecision[uncommittedBase, backingConstraints.VolumePrecision], TRUE)
    ELSE Offset(NumberByCappingPrecision[backingConstraints.MinBaseVolume,
                                         backingConstraints.VolumePrecision], TRUE)

\* baseVolumeToOffset offsetting the minimum whenever it does not skip
offsetOf_alwaysMinimum(uncommittedBase) ==
    IF LessFloat[uncommittedBase, Scale[backingConstraints.MinBaseVolume, 1, 2]]
    THEN Offset(NumberZero, FALSE)
    ELSE Offset(NumberByCappingPrecision[backingConstraints.MinBaseVolume,
                                         backingConstraints.VolumePrecision], TRUE)

\* baseVolumeToOffset from uncommittedBase on: skip below half the minimum,
\* the whole of it above the minimum, the minimum otherwise
offsetOf(uncommittedBase) ==
    IF LessFloat[uncommittedBase, Scale[backingConstraints.MinBaseVolume, 1, 2]]
    THEN Offset(NumberZero, FALSE)
    ELSE IF LessFloat[backingConstraints.MinBaseVolume, uncommittedBase]
    THEN Offset(NumberByCappingPrecision[uncommittedBase, backingConstraints.VolumePrecision], TRUE)
    ELSE Offset(NumberByCappingPrecision[backingConstraints.MinBaseVolume,
                                         backingConstraints.VolumePrecision], TRUE)

\* baseVolumeToOffset sizing the order from total alone
baseVolumeToOffset_fromTotal(surplus) == offsetOf(surplus.total)

\* baseVolumeToOffset(trade, newOrderAction), surplus being
\* s.baseSurplus[newOrderAction]
baseVolumeToOffset(surplus) == offsetOf(NumSubtract(surplus.total, surplus.committed))

\* the calls of HandleFill
Fills == 1..MaxFills

\* filled volumes: 0.04, 0.05, 0.1 and 0.15 with MinBaseVolume = 0.1
FillVolumes == { Num(400000, 7), Num(500000, 7), Num(1000000, 7), Num(1500000, 7) }

\* the trades a fill can report
Trades == [OrderAction : OrderActions, Volume : FillVolumes, Price : {Num(20000000, 7)}]

NoTrade == [OrderAction |-> "none", Volume |-> NumberZero, Price |-> NumberZero]

\* a call of HandleFill that has not been made; found is the holder of the
\* mutex when the call is made, atLock, atSubmit and atReturn are the surplus
\* of the reversed action as the call finds it after locking, leaves it when
\* it calls AddOrder, and leaves it when it returns
NotCalled ==
    [pc |-> "none", trade |-> NoTrade, total |-> NumberZero, newVolume |-> NumberZero,
     result |-> "none", found |-> NoHolder, answer |-> "none", atLock |-> makeAssetSurplus, atSubmit |-> makeAssetSurplus,
     atReturn |-> makeAssetSurplus]

\* what tradeAPI.AddOrder can return: a transaction id, an error, or a nil
\* transaction id without an error
AddOrderAnswers == {"id", "error", "nil"}

\* the hedge order of HandleFill
HedgeOrder(f, newOrderAction, trade, newVolume) ==
    [fill |-> f, OrderAction |-> newOrderAction,
     Price |-> NumberByCappingPrecision[trade.Price, backingConstraints.PricePrecision],
     Volume |-> newVolume]

\* makeMirrorStrategy: free mutex, zero surplus for both actions
FillInit ==
    /\ baseSurplus = [a \in OrderActions |-> makeAssetSurplus]
    /\ mutex = NoHolder
    /\ handlers = [f \in Fills |-> NotCalled]
    /\ hedgeOrders = <<>>

\* no fill has arrived
FillIdle == FillInit

\* a fill arrives: HandleFill(trade) is called and reaches s.mutex.Lock()
HandleFill(f) ==
    /\ handlers[f].pc = "none"
    /\ \A g \in Fills : g < f => handlers[g].pc # "none"
    /\ \E trade \in Trades :
        handlers' = [handlers EXCEPT ![f].pc = "waiting", ![f].trade = trade,
                                     ![f].found = mutex]
    /\ UNCHANGED <<baseSurplus, mutex, hedgeOrders>>
    /\ UNCHANGED <<mirrorVars, updateVars, filterVars, twapVars, filter64Vars, restVars>>

\* s.mutex.Lock() returning to a call whatever the mutex holds
Lock_unguarded(f) ==
    /\ handlers[f].pc = "waiting"
    /\ mutex' = f
    /\ handlers' = [handlers EXCEPT ![f].pc = "locked",
                       ![f].atLock = baseSurplus[Reverse(handlers[f].trade.OrderAction)]]
    /\ UNCHANGED <<baseSurplus, hedgeOrders>>
    /\ UNCHANGED <<mirrorVars, updateVars, filterVars, twapVars, filter64Vars, restVars>>

\* s.mutex.Lock() returns: the mutex was free and the call holds it
Lock(f) ==
    /\ handlers[f].pc = "waiting"
    /\ mutex = NoHolder
    /\ mutex' = f
    /\ handlers' = [handlers EXCEPT ![f].pc = "locked",
                       ![f].atLock = baseSurplus[Reverse(handlers[f].trade.OrderAction)]]
    /\ UNCHANGED <<baseSurplus, hedgeOrders>>
    /\ UNCHANGED <<mirrorVars, updateVars, filterVars, twapVars, filter64Vars, restVars>>

\* the read of s.baseSurplus[newOrderAction].total of the statement that
\* adds the trade's volume
ReadTotal(f) ==
    /\ handlers[f].pc = "locked"
    /\ handlers' = [handlers EXCEPT ![f].pc = "read",
                       ![f].total = baseSurplus[Reverse(handlers[f].trade.OrderAction)].total]
    /\ UNCHANGED <<baseSurplus, mutex, hedgeOrders>>
    /\ UNCHANGED <<mirrorVars, updateVars, filterVars, twapVars, filter64Vars, restVars>>

\* the write of that statement made to the total of the trade's own action
AddTotal_unreversed(f) ==
    /\ handlers[f].pc = "read"
    /\ baseSurplus' = [baseSurplus EXCEPT ![handlers[f].trade.OrderAction].total =
                          NumAdd(handlers[f].total, handlers[f].trade.Volume)]
    /\ handlers' = [handlers EXCEPT ![f].pc = "added"]
    /\ UNCHANGED <<mutex, hedgeOrders>>
    /\ UNCHANGED <<mirrorVars, updateVars, filterVars, twapVars, filter64Vars, restVars>>

\* the write of that statement: total = total.Add(*trade.Volume)
AddTotal(f) ==
    /\ handlers[f].pc = "read"
    /\ baseSurplus' = [baseSurplus EXCEPT ![Reverse(handlers[f].trade.OrderAction)].total =
                          NumAdd(handlers[f].total, handlers[f].trade.Volume)]
    /\ handlers' = [handlers EXCEPT ![f].pc = "added"]
    /\ UNCHANGED <<mutex, hedgeOrders>>
    /\ UNCHANGED <<mirrorVars, updateVars, filterVars, twapVars, filter64Vars, restVars>>

\* the call returns: the deferred s.mutex.Unlock() runs
Returned(h, result, surplus) ==
    [h EXCEPT !.pc = "returned", !.result = result, !.atReturn = surplus]

\* baseVolumeToOffset answered !ok: return nil
Skip(f, newOrderAction) ==
    /\ handlers' = [handlers EXCEPT ![f] = Returned(@, "skip", baseSurplus[newOrderAction])]
    /\ mutex' = NoHolder
    /\ UNCHANGED <<baseSurplus, hedgeOrders>>

\* the commit of newVolume releasing the mutex before the order is submitted
Commit_unlocks(f, newOrderAction, newVolume) ==
    /\ baseSurplus' = [baseSurplus EXCEPT ![newOrderAction].committed = NumAdd(@, newVolume)]
    /\ handlers' = [handlers EXCEPT ![f].pc = "committed", ![f].newVolume = newVolume]
    /\ mutex' = NoHolder
    /\ UNCHANGED hedgeOrders

\* baseVolumeToOffset answered ok: newVolume is committed
Commit(f, newOrderAction, newVolume) ==
    /\ baseSurplus' = [baseSurplus EXCEPT ![newOrderAction].committed = NumAdd(@, newVolume)]
    /\ handlers' = [handlers EXCEPT ![f].pc = "committed", ![f].newVolume = newVolume]
    /\ UNCHANGED <<mutex, hedgeOrders>>

\* HandleFill from baseVolumeToOffset to the commit of newVolume
OffsetOrSkip(f) ==
    /\ handlers[f].pc = "added"
    /\ \E newOrderAction \in {Reverse(handlers[f].trade.OrderAction)} :
        \E r \in {baseVolumeToOffset(baseSurplus[newOrderAction])} :
            IF ~r.ok THEN Skip(f, newOrderAction)
            ELSE Commit(f, newOrderAction, r.newVolume)
    /\ UNCHANGED <<mirrorVars, updateVars, filterVars, twapVars, filter64Vars, restVars>>

\* the order is made and handed to tradeAPI.AddOrder, which blocks
AddOrder(f) ==
    /\ handlers[f].pc = "committed"
    /\ \E newOrderAction \in {Reverse(handlers[f].trade.OrderAction)} :
        /\ handlers' = [handlers EXCEPT ![f].pc = "submitting",
                           ![f].atSubmit = baseSurplus[newOrderAction]]
        /\ hedgeOrders' = Append(hedgeOrders, HedgeOrder(f, newOrderAction, handlers[f].trade,
                                                         handlers[f].newVolume))
    /\ UNCHANGED <<baseSurplus, mutex>>
    /\ UNCHANGED <<mirrorVars, updateVars, filterVars, twapVars, filter64Vars, restVars>>

\* the surplus after a successful submission
Offsetting(surplus, newVolume) ==
    [total |-> NumSubtract(surplus.total, newVolume),
     committed |-> NumSubtract(surplus.committed, newVolume)]

\* the failure of AddOrder releasing the committed volume
Failed_releases(f, newOrderAction, answer) ==
    /\ baseSurplus' = [baseSurplus EXCEPT ![newOrderAction].committed =
                          NumSubtract(@, handlers[f].newVolume)]
    /\ handlers' = [handlers EXCEPT ![f] =
                       [Returned(@, "error", baseSurplus'[newOrderAction]) EXCEPT !.answer = answer]]

\* AddOrder returned an error or a nil transaction id: return an error
Failed(f, newOrderAction, answer) ==
    /\ handlers' = [handlers EXCEPT ![f] =
                       [Returned(@, "error", baseSurplus[newOrderAction]) EXCEPT !.answer = answer]]
    /\ UNCHANGED baseSurplus

\* the success of AddOrder reducing total alone
Succeeded_totalOnly(f, newOrderAction, answer) ==
    /\ baseSurplus' = [baseSurplus EXCEPT ![newOrderAction].total =
                          NumSubtract(@, handlers[f].newVolume)]
    /\ handlers' = [handlers EXCEPT ![f] =
                       [Returned(@, "ok", baseSurplus'[newOrderAction]) EXCEPT !.answer = answer]]

\* AddOrder returned a transaction id: total and committed are reduced by
\* newVolume, return nil
Succeeded(f, newOrderAction, answer) ==
    /\ baseSurplus' = [baseSurplus EXCEPT ![newOrderAction] = Offsetting(@, handlers[f].newVolume)]
    /\ handlers' = [handlers EXCEPT ![f] =
                       [Returned(@, "ok", baseSurplus'[newOrderAction]) EXCEPT !.answer = answer]]

\* HandleFill returning from a failed submission with the mutex held
AddOrderReturns_heldOnFailure(f) ==
    /\ handlers[f].pc = "submitting"
    /\ \E answer \in AddOrderAnswers, newOrderAction \in {Reverse(handlers[f].trade.OrderAction)} :
        IF answer # "id"
        THEN Failed(f, newOrderAction, answer) /\ UNCHANGED mutex
        ELSE Succeeded(f, newOrderAction, answer) /\ mutex' = NoHolder
    /\ UNCHANGED hedgeOrders
    /\ UNCHANGED <<mirrorVars, updateVars, filterVars, twapVars, filter64Vars, restVars>>

\* HandleFill from the return of AddOrder to its own return
AddOrderReturns(f) ==
    /\ handlers[f].pc = "submitting"
    /\ \E answer \in AddOrderAnswers, newOrderAction \in {Reverse(handlers[f].trade.OrderAction)} :
        IF answer # "id"
        THEN Failed(f, newOrderAction, answer)
        ELSE Succeeded(f, newOrderAction, answer)
    /\ mutex' = NoHolder
    /\ UNCHANGED hedgeOrders
    /\ UNCHANGED <<mirrorVars, updateVars, filterVars, twapVars, filter64Vars, restVars>>

FillNext ==
    \E f \in Fills :
        \/ HandleFill(f)
        \/ Lock(f)
        \/ ReadTotal(f)
        \/ AddTotal(f)
        \/ OffsetOrSkip(f)
        \/ AddOrder(f)
        \/ AddOrderReturns(f)

-----------------------------------------------------------------------------
(* sell-side TWAP: the surplus formula over every accepted configuration *)

\* a float64 result: a number, or what a division by 0 gives
Finite(v) == [kind |-> "number", v |-> v]

NotANumber == [kind |-> "NaN", v |-> Whole(0)]

Infinite == [kind |-> "Inf", v |-> Whole(0)]

\* x / y in float64: +-Inf for a non-zero x over 0, NaN for 0 over 0
floatQuotient(x, y) ==
    IF y.n # 0 THEN Finite(RQuot(x, y))
    ELSE IF x.n = 0 THEN NotANumber ELSE Infinite

\* x + y in float64 where y can be NaN or +-Inf
floatSum(x, y) == IF y.kind = "number" THEN Finite(RAdd(x, y.v)) ELSE y

\* firstDistributionOfBaseSurplus with the division as float64 does it
firstDistributionOfBaseSurplusFloat(p, totalSurplus, totalRemainingBuckets) ==
    floatQuotient(RMul(totalSurplus, RSub(p.exponentialSmoothingFactor, Whole(1))),
                  surplusDivisor(p, totalRemainingBuckets))

\* smoothing factors and distribution ceilings from 0 to 1, the ends included
SmoothingFactors == { Whole(0), Rat(1, 4), Rat(1, 2), Whole(1) }

CeilingFractions == { Whole(0), Rat(1, 2), Whole(1) }

\* the configurations makeSellTwapLevelProvider accepts among those with
\* these factors and ceilings
AcceptedTwapConfigs ==
    { c \in { [BaseTwapConfig EXCEPT !.exponentialSmoothingFactor = r,
                                     !.distributeSurplusOverRemainingIntervalsPercentCeiling = f] :
                  r \in SmoothingFactors, f \in CeilingFractions } :
        makeSellTwapLevelProvider(c) = "none" }

\* the day's volume at the end of the previous bucket
SoldAtCutover == { Whole(0), Whole(10), Whole(30), Whole(48) }

NoSurplusCall ==
    [called |-> FALSE, bID |-> 0, totalSurplus |-> Whole(0), totalRemainingBuckets |-> 0,
     divisor |-> Whole(0), baseSurplusIncluded |-> Finite(Whole(0)),
     baseCapacity |-> Finite(Whole(0))]

SurplusIdle == surplusConfig = BaseTwapConfig /\ surplusCall = NoSurplusCall

\* a provider made from any accepted configuration
SurplusInit == surplusConfig \in AcceptedTwapConfigs /\ surplusCall = NoSurplusCall

\* the end of cutoverToNewBucket for the bucket bID, the previous bucket
\* having ended with the day's volume at thisBucketDayBaseSoldStart
surplusAtCutover(p, bID, averageBaseCapacity, thisBucketDayBaseSoldStart, totalBuckets) ==
    [called |-> TRUE,
     bID |-> bID,
     totalSurplus |-> RSub(RMul(averageBaseCapacity, Whole(bID)), thisBucketDayBaseSoldStart),
     totalRemainingBuckets |-> totalBuckets - bID,
     divisor |-> surplusDivisor(p, totalBuckets - bID),
     baseSurplusIncluded |->
         firstDistributionOfBaseSurplusFloat(p,
             RSub(RMul(averageBaseCapacity, Whole(bID)), thisBucketDayBaseSoldStart),
             totalBuckets - bID),
     baseCapacity |->
         floatSum(averageBaseCapacity,
             firstDistributionOfBaseSurplusFloat(p,
                 RSub(RMul(averageBaseCapacity, Whole(bID)), thisBucketDayBaseSoldStart),
                 totalBuckets - bID))]

\* a new-bucket transition: the bucket after the active one is entered
Cutover ==
    /\ \E sold \in SoldAtCutover :
        \E bID \in 1..(CeilDiv(secondsInDay, surplusConfig.parentBucketSizeSeconds) - 1) :
            surplusCall' =
                surplusAtCutover(surplusConfig, bID,
                    RDiv(surplusConfig.dowFilter[0].cap.v,
                         Whole(totalBucketsTargeted(surplusConfig))),
                    sold,
                    CeilDiv(secondsInDay, surplusConfig.parentBucketSizeSeconds))
    /\ UNCHANGED surplusConfig
    /\ UNCHANGED <<mirrorVars, updateVars, filterVars, twapVars, fillVars, filter64Vars, registryVars>>

SurplusNext == Cutover

-----------------------------------------------------------------------------
(* process registry: KelpOS.register, Unregister, GetProcess, Stop *)

NoProcess == 0

Namespaces == { "ccxt", "kelp" }

\* the callers of Stop, each making one call
Stoppers == 1..MaxStops

NotStopping ==
    [pc |-> "none", namespace |-> "none", p |-> NoProcess, exists |-> FALSE,
     result |-> "none", at |-> 0]

NoRegister == [namespace |-> "none", pid |-> NoProcess, result |-> "none"]

\* a new KelpOS: nothing registered, nothing started
RegistryInit ==
    /\ processes = [ns \in Namespaces |-> NoProcess]
    /\ nextPid = 1
    /\ running = {}
    /\ kills = <<>>
    /\ stops = [c \in Stoppers |-> NotStopping]
    /\ lastRegister = NoRegister

RegistryIdle == RegistryInit

RestIdle == SurplusIdle /\ RegistryIdle

\* register overwriting the entry of a namespace that is taken
register_overwrites(namespace, pid) ==
    /\ processes' = [processes EXCEPT ![namespace] = pid]
    /\ lastRegister' = [namespace |-> namespace, pid |-> pid, result |-> "nil"]

\* register, under processLock: an error for a namespace that is taken
register(namespace, pid) ==
    IF processes[namespace] # NoProcess
    THEN /\ lastRegister' = [namespace |-> namespace, pid |-> pid, result |-> "exists"]
         /\ UNCHANGED processes
    ELSE /\ processes' = [processes EXCEPT ![namespace] = pid]
         /\ lastRegister' = [namespace |-> namespace, pid |-> pid, result |-> "nil"]

\* Background: the command is started, then registered; a command whose
\* registration fails keeps running
Background(namespace) ==
    /\ nextPid <= MaxPids
    /\ nextPid' = nextPid + 1
    /\ running' = running \cup {nextPid}
    /\ register(namespace, nextPid)
    /\ UNCHANGED <<kills, stops>>
    /\ UNCHANGED <<mirrorVars, updateVars, filterVars, twapVars, fillVars, filter64Vars, surplusVars>>

\* Stop, its call of GetProcess under processLock: a copy of the entry and
\* whether it exists; without an entry Stop returns an error
GetProcess(c, namespace) ==
    /\ stops[c].pc = "none"
    /\ stops' = [stops EXCEPT ![c] =
           [pc |-> IF processes[namespace] # NoProcess THEN "got" ELSE "done",
            namespace |-> namespace,
            p |-> processes[namespace],
            exists |-> processes[namespace] # NoProcess,
            result |-> IF processes[namespace] # NoProcess THEN "none" ELSE "missing",
            at |-> nextPid]]
    /\ UNCHANGED <<processes, nextPid, running, kills, lastRegister>>
    /\ UNCHANGED <<mirrorVars, updateVars, filterVars, twapVars, fillVars, filter64Vars, surplusVars>>

\* Unregister deleting whether or not there is an entry
Unregister_unchecked(c) ==
    /\ stops[c].pc = "got"
    /\ processes' = [processes EXCEPT ![stops[c].namespace] = NoProcess]
    /\ stops' = [stops EXCEPT ![c].pc = "unregistered"]
    /\ UNCHANGED <<nextPid, running, kills, lastRegister>>
    /\ UNCHANGED <<mirrorVars, updateVars, filterVars, twapVars, fillVars, filter64Vars, surplusVars>>

\* Stop, its call of Unregister under processLock: the entry is deleted, or
\* there is none and Stop returns the error without killing
Unregister(c) ==
    /\ stops[c].pc = "got"
    /\ IF processes[stops[c].namespace] # NoProcess
       THEN /\ processes' = [processes EXCEPT ![stops[c].namespace] = NoProcess]
            /\ stops' = [stops EXCEPT ![c].pc = "unregistered"]
       ELSE /\ stops' = [stops EXCEPT ![c].pc = "done", ![c].result = "error"]
            /\ UNCHANGED processes
    /\ UNCHANGED <<nextPid, running, kills, lastRegister>>
    /\ UNCHANGED <<mirrorVars, updateVars, filterVars, twapVars, fillVars, filter64Vars, surplusVars>>

\* Stop, its call of p.Cmd.Process.Kill on the copy GetProcess returned
Kill(c) ==
    /\ stops[c].pc = "unregistered"
    /\ kills' = Append(kills, [by |-> c, pid |-> stops[c].p])
    /\ running' = running \ {stops[c].p}
    /\ stops' = [stops EXCEPT ![c].pc = "done", ![c].result = "killed"]
    /\ UNCHANGED <<processes, nextPid, lastRegister>>
    /\ UNCHANGED <<mirrorVars, updateVars, filterVars, twapVars, fillVars, filter64Vars, surplusVars>>

RegistryNext ==
    \/ \E namespace \in Namespaces : Background(namespace)
    \/ \E c \in Stoppers, namespace \in Namespaces : GetProcess(c, namespace)
    \/ \E c \in Stoppers : Unregister(c)
    \/ \E c \in Stoppers : Kill(c)

-----------------------------------------------------------------------------
(* the specifications *)

\* one side of the mirror strategy under updateLevels
Init == MirrorInit /\ UpdateIdle /\ FilterUnused /\ TwapIdle /\ FillIdle /\ Filter64Idle /\ RestIdle

Next == MirrorNext

Spec == Init /\ [][Next]_vars

\* both sides of the mirror strategy under UpdateWithOps
InitUpdate == MirrorIdle /\ UpdateIdle /\ FilterUnused /\ TwapIdle /\ FillIdle /\ Filter64Idle /\ RestIdle

NextUpdate == UpdateNext

SpecUpdate == InitUpdate /\ [][NextUpdate]_vars

\* the volume filter under Apply
InitFilter == MirrorIdle /\ UpdateIdle /\ FilterInit /\ TwapIdle /\ FillIdle /\ Filter64Idle /\ RestIdle

NextFilter == FilterNext

SpecFilter == InitFilter /\ [][NextFilter]_vars

\* the TWAP sell scheduler under GetLevels
InitTwap == MirrorIdle /\ UpdateIdle /\ FilterUnused /\ TwapInit /\ FillIdle /\ Filter64Idle /\ RestIdle

NextTwap == TwapNext

SpecTwap == InitTwap /\ [][NextTwap]_vars

\* the fill handler of the mirror strategy under concurrent fills
InitFill == MirrorIdle /\ UpdateIdle /\ FilterUnused /\ TwapIdle /\ FillInit /\ Filter64Idle /\ RestIdle

NextFill == FillNext

SpecFill == InitFill /\ [][NextFill]_vars

\* the steps of the call f once it has been made
Proceed(f) ==
    Lock(f) \/ ReadTotal(f) \/ AddTotal(f) \/ OffsetOrSkip(f) \/ AddOrder(f) \/ AddOrderReturns(f)

\* the fill handler with every call scheduled and served: a goroutine that
\* can run does run, s.mutex.Lock() returns to a waiting call once the mutex
\* stays free, and tradeAPI.AddOrder answers
SpecFillFair == SpecFill /\ \A f \in Fills : WF_vars(Proceed(f))

\* the volume filter computing in float64
InitFilter64 == MirrorIdle /\ UpdateIdle /\ FilterUnused /\ TwapIdle /\ FillIdle /\ Filter64Init /\ RestIdle

NextFilter64 == Filter64Next

SpecFilter64 == InitFilter64 /\ [][NextFilter64]_vars

\* the surplus formula of the TWAP sell scheduler over the accepted
\* configurations
InitSurplus ==
    /\ MirrorIdle /\ UpdateIdle /\ FilterUnused /\ TwapIdle /\ FillIdle /\ Filter64Idle
    /\ SurplusInit /\ RegistryIdle

NextSurplus == SurplusNext

SpecSurplus == InitSurplus /\ [][NextSurplus]_vars

\* the process registry under concurrent calls of Stop and Background
InitRegistry ==
    /\ MirrorIdle /\ UpdateIdle /\ FilterUnused /\ TwapIdle /\ FillIdle /\ Filter64Idle
    /\ SurplusIdle /\ RegistryInit

NextRegistry == RegistryNext

SpecRegistry == InitRegistry /\ [][NextRegistry]_vars

-----------------------------------------------------------------------------
(* mirror strategy: properties of one pass of updateLevels *)

\* the pass has returned its operation list without an error
Finished == pc = "built" /\ e = "none"

\* position i holds both a live offer and a target level
Paired(i) == i \in 1..Min(Len(oldOffers), Len(newOrders))

\* the target of position i as the side would post it
TargetPrice(i) ==
    Scale[newOrders[i].Price, priceMultiplier(hack).num, priceMultiplier(hack).den]

TargetVol(i) == Scale[newOrders[i].Volume, 1, config.volumeDivideBy]

\* the live offer of position i in sell-equivalent terms
LivePrice(i) ==
    sellEquivalentPrice(
        MustNumberFromString[oldOffers[i].Price, primaryConstraints.PricePrecision], hack)

LiveVol(i) ==
    sellEquivalentVol(
        MustNumberFromString[oldOffers[i].Amount, primaryConstraints.VolumePrecision],
        MustNumberFromString[oldOffers[i].Price, primaryConstraints.PricePrecision], hack)

EpsilonEqualAt(i) == sameParams(LivePrice(i), LiveVol(i), TargetPrice(i), TargetVol(i))

\* the target volume of position i, capped to the primary venue's precision,
\* is below the backing venue's minimum base volume
BelowMinimumAt(i) ==
    LessFloat[NumberByCappingPrecision[TargetVol(i), primaryConstraints.VolumePrecision],
              backingConstraints.MinBaseVolume]

\* the AddLiabilities calls made for position i
Reserved(i) == { k \in 1..Len(liabilities) : liabilities[k].idx = i }

Called(i) == \E c \in venueCalls : c.idx = i

Answered(i, a) == \E c \in venueCalls : c.idx = i /\ c.answer = a

OpsAt(i) == { k \in 1..Len(allOps) : allOps[k].idx = i }

\* C1: in the list updateLevels returns, every delete operation (for a
\* below-minimum level, a nil modify or a surplus live offer) stands before
\* every modify and every create operation.
C1_DeletesBeforeOthers ==
    pc = "built" =>
        \A j, k \in 1..Len(allOps) :
            (allOps[j].kind = "delete" /\ allOps[k].kind # "delete") => j < k

\* C1 witness: a returned list in which a delete for a later position stands
\* before a modify or create for an earlier one.
C1_Witness ==
    /\ Finished
    /\ \E j, k \in 1..Len(allOps) :
        /\ allOps[j].kind = "delete"
        /\ allOps[k].kind # "delete"
        /\ allOps[j].idx > allOps[k].idx

\* C2: a second pass over the live offers the first pass left, every
\* operation of which the venue built, with the same unchanged target,
\* returns no operations.
C2_Idempotent == (pc = "built" /\ sameTarget) => allOps = <<>>

\* the target levels beyond the live offers that the create loop skips for
\* their size, and those for which createOffer returned nil
SkippedCreates ==
    { i \in (Len(oldOffers) + 1)..Len(newOrders) :
        LessFloat[TargetVol(i), backingConstraints.MinBaseVolume] }

DeclinedCreates ==
    { i \in (Len(oldOffers) + 1)..Len(newOrders) : Answered(i, "nil") }

\* C3 as stated: with more targets than live offers, a pass that returns its
\* list emits exactly len(target) - len(live) creates minus those skipped for
\* sub-minimum size, and no delete.
C3_AsStated ==
    (Finished /\ Len(newOrders) > Len(oldOffers)) =>
        /\ Len(OpsOfKind(allOps, "create")) =
            (Len(newOrders) - Len(oldOffers)) - Cardinality(SkippedCreates)
        /\ OpsOfKind(allOps, "delete") = <<>>

\* C3: with more targets than live offers, a pass that returns its list
\* emits exactly len(target) - len(live) creates minus those skipped for
\* sub-minimum size and minus those createOffer answered with nil; it emits
\* a delete only for a paired live offer whose changed target is below the
\* minimum volume or whose modify was answered with nil.
C3_CreatesForSurplusTargets ==
    (Finished /\ Len(newOrders) > Len(oldOffers)) =>
        /\ Len(OpsOfKind(allOps, "create")) =
            (Len(newOrders) - Len(oldOffers)) - Cardinality(SkippedCreates)
                - Cardinality(DeclinedCreates)
        /\ \A k \in 1..Len(allOps) :
            allOps[k].kind = "delete" =>
                /\ Paired(allOps[k].idx)
                /\ ~EpsilonEqualAt(allOps[k].idx)
                /\ BelowMinimumAt(allOps[k].idx) \/ Answered(allOps[k].idx, "nil")

\* C3 witness: more targets than live offers, and the returned list holds a
\* delete for a paired offer next to a create for a surplus target.
C3_Witness ==
    /\ Finished
    /\ Len(newOrders) > Len(oldOffers)
    /\ OpsOfKind(allOps, "delete") # <<>>
    /\ OpsOfKind(allOps, "create") # <<>>

\* C4: for a paired live offer and target that are epsilon-equal in price and
\* volume (the live offer in sell-equivalent terms), the pass emits no
\* operation for the position, does not call the venue, and reserves the
\* live offer's capital exactly once.
C4_KeepReservesOnce ==
    Finished =>
        \A i \in 1..Len(oldOffers) :
            (Paired(i) /\ EpsilonEqualAt(i)) =>
                /\ OpsAt(i) = {}
                /\ ~Called(i)
                /\ Cardinality(Reserved(i)) = 1
                /\ \A k \in Reserved(i) :
                    /\ liabilities[k].selling = oldOffers[i].Selling
                    /\ liabilities[k].buying = oldOffers[i].Buying
                    /\ IF hack
                       THEN /\ liabilities[k].amountBuying = AsFloat(LiveVol(i))
                            /\ liabilities[k].amountSelling =
                                AsFloat(Multiply[LiveVol(i), LivePrice(i)])
                       ELSE /\ liabilities[k].amountSelling = AsFloat(LiveVol(i))
                            /\ liabilities[k].amountBuying =
                                AsFloat(Multiply[LiveVol(i), LivePrice(i)])

\* C4 witness: a finished pass with a paired position whose live offer is
\* epsilon-equal to its target without being equal to it.
C4_Witness ==
    /\ Finished
    /\ \E i \in 1..Len(oldOffers) :
        /\ Paired(i)
        /\ EpsilonEqualAt(i)
        /\ LiveVol(i) # TargetVol(i)
        /\ Cardinality(Reserved(i)) = 1

\* C5: for a paired live offer and target that are not epsilon-equal, a
\* capped target volume below the backing venue's minimum gives a delete for
\* the live offer, no modify, no venue call and no reserved capital;
\* otherwise modifyOffer is called for the position.
C5_BelowMinimumDeletes ==
    Finished =>
        \A i \in 1..Len(oldOffers) :
            (Paired(i) /\ ~EpsilonEqualAt(i)) =>
                IF BelowMinimumAt(i)
                THEN /\ HasOp(allOps, "delete", i)
                     /\ ~HasOp(allOps, "modify", i)
                     /\ ~Called(i)
                     /\ Reserved(i) = {}
                ELSE Called(i)

\* C5 witness: a finished pass that deleted one changed pair for its size
\* and called modifyOffer for another.
C5_Witness ==
    /\ Finished
    /\ \E i, j \in 1..Len(oldOffers) :
        /\ Paired(i) /\ ~EpsilonEqualAt(i) /\ BelowMinimumAt(i)
        /\ HasOp(allOps, "delete", i)
        /\ Paired(j) /\ ~EpsilonEqualAt(j) /\ ~BelowMinimumAt(j)
        /\ Called(j)

\* C6: when modifyOffer returns nil for a changed pair, the nil is not an
\* error (an error of the pass comes from a later position: its unreadable
\* offer or its venue call) and the finished pass holds a delete for the live
\* offer, no modify for it and no reserved capital.
C6_NilModifyDeletes ==
    pc = "built" =>
        \A i \in 1..Len(oldOffers) :
            (Paired(i) /\ Answered(i, "nil")) =>
                /\ e = "parse" => Paired(i + 1)
                /\ e = "venue" => \E c \in venueCalls : c.idx > i /\ c.answer = "err"
                /\ e = "none" =>
                    /\ HasOp(allOps, "delete", i)
                    /\ ~HasOp(allOps, "modify", i)
                    /\ Reserved(i) = {}

\* C6 witness: a finished pass in which modifyOffer returned nil at the first
\* position and the second position was still processed.
C6_Witness ==
    /\ Finished
    /\ Paired(1)
    /\ Answered(1, "nil")
    /\ HasOp(allOps, "delete", 1)
    /\ Called(2)

\* C7: with more live offers than targets, the finished pass holds exactly
\* one delete for every live offer beyond the targets, len(live) -
\* len(target) of them, and neither calls the venue nor emits a modify or a
\* create for those positions.
C7_SurplusLiveDeleted ==
    (Finished /\ Len(oldOffers) > Len(newOrders)) =>
        /\ \A i \in (Len(newOrders) + 1)..Len(oldOffers) :
            /\ Cardinality(OpsAt(i)) = 1
            /\ HasOp(allOps, "delete", i)
            /\ ~Called(i)
        /\ Cardinality({ k \in 1..Len(allOps) :
                            allOps[k].kind = "delete" /\ allOps[k].idx > Len(newOrders) })
            = Len(oldOffers) - Len(newOrders)

\* C7 witness: a finished pass with a target and two live offers, the second
\* of them deleted as surplus.
C7_Witness ==
    /\ Finished
    /\ Len(newOrders) = 1
    /\ Len(oldOffers) = 2
    /\ HasOp(allOps, "delete", 2)

-----------------------------------------------------------------------------
(* mirror strategy: properties of one call of UpdateWithOps *)

\* the AddLiabilities calls made for one side (the buy side sells the quote asset)
ReservedFor(sideName) ==
    { k \in 1..Len(reserved) :
        reserved[k].selling = (IF sideName = "buy" THEN "quote" ELSE "base") }

-----------------------------------------------------------------------------
(* volume filter: properties of one Apply call *)

\* the call is filtering or has returned its operations without an error
Filtering == filterPc \in {"filtering", "returned"} /\ filterErr = "none"

IsSell(op) == op.Selling = "base"

\* the kept sell operations' amounts, summed, in units of 10^-7
RECURSIVE SoldBase(_)
SoldBase(list) ==
    IF list = <<>> THEN Whole(0)
    ELSE RAdd(IF IsSell(Head(list)) THEN Whole(Head(list).Amount.v) ELSE Whole(0),
              SoldBase(Tail(list)))

\* the kept sell operations' amount x price, summed, in units of 10^-7
RECURSIVE SoldQuote(_)
SoldQuote(list) ==
    IF list = <<>> THEN Whole(0)
    ELSE RAdd(IF IsSell(Head(list))
              THEN Rat(Head(list).Amount.v * Head(list).Price.n, Head(list).Price.d)
              ELSE Whole(0),
              SoldQuote(Tail(list)))

\* with on-the-books at most the cap, on-the-books plus what the kept sell
\* operations sell stays at most the cap; with on-the-books above it no sell
\* operation is kept
WithinCap(cap, otb, sold) ==
    cap.set =>
        IF RLe(otb, cap.v)
        THEN RLe(sold, RMul(RSub(cap.v, otb), Whole(Pow10[7])))
        ELSE \A k \in 1..Len(keptOps) : ~IsSell(keptOps[k])

\* C9: for each configured cap, in base units and in quote units (amount x
\* price), in exact and in ignore mode: when on-the-books is at most the cap,
\* on-the-books plus the final sizes of the sell operations the call keeps is
\* at most the cap; when on-the-books exceeds the cap, no sell is kept.
C9_CapSafety ==
    Filtering =>
        /\ WithinCap(filterConfig.SellBaseAssetCapInBaseUnits, dailyOTB.base,
                     SoldBase(keptOps))
        /\ WithinCap(filterConfig.SellBaseAssetCapInQuoteUnits, dailyOTB.quote,
                     SoldQuote(keptOps))

\* volumeFilterFn has decided a sell operation in exact mode
ExactSellDecided ==
    /\ Filtering
    /\ filterConfig.mode = "exact"
    /\ IsSell(lastOp.op)

LastAmount == ParseFloat(lastOp.op.Amount)

LastPrice == Rat(lastOp.op.Price.n, lastOp.op.Price.d)

\* cap - on-the-books - to-be-booked before the operation, in the cap's units
RoomBase ==
    RSub(RSub(filterConfig.SellBaseAssetCapInBaseUnits.v, dailyOTB.base), lastOp.tbb.base)

RoomQuote ==
    RSub(RSub(filterConfig.SellBaseAssetCapInQuoteUnits.v, dailyOTB.quote), lastOp.tbb.quote)

\* the operation's projected total exceeds the cap
ExceedsBase ==
    /\ filterConfig.SellBaseAssetCapInBaseUnits.set
    /\ RLt(RoomBase, LastAmount)

ExceedsQuote ==
    /\ filterConfig.SellBaseAssetCapInQuoteUnits.set
    /\ RLt(RoomQuote, RMul(LastAmount, LastPrice))

\* every configured cap has room left
RoomLeft ==
    /\ filterConfig.SellBaseAssetCapInBaseUnits.set => RLt(Whole(0), RoomBase)
    /\ filterConfig.SellBaseAssetCapInQuoteUnits.set => RLt(Whole(0), RoomQuote)

\* the largest size, in base units, that fits every configured cap's room
LargestFit ==
    IF ~filterConfig.SellBaseAssetCapInQuoteUnits.set THEN RoomBase
    ELSE IF ~filterConfig.SellBaseAssetCapInBaseUnits.set THEN RDiv(RoomQuote, LastPrice)
    ELSE IF RLe(RoomBase, RDiv(RoomQuote, LastPrice)) THEN RoomBase
    ELSE RDiv(RoomQuote, LastPrice)

\* C10 as stated: in exact mode a sell whose projected total exceeds a cap is
\* shrunk to cap - on-the-books - to-be-booked; if that size is > 0 it is
\* kept and to-be-booked grows by the shrunk size, otherwise it is dropped.
C10_AsStated ==
    ExactSellDecided =>
        /\ ExceedsBase =>
            IF RLt(Whole(0), RoomBase)
            THEN lastOp.kept /\ dailyTBB.base = RAdd(lastOp.tbb.base, RoomBase)
            ELSE ~lastOp.kept
        /\ ExceedsQuote =>
            IF RLt(Whole(0), RoomQuote)
            THEN lastOp.kept /\ dailyTBB.quote = RAdd(lastOp.tbb.quote, RoomQuote)
            ELSE ~lastOp.kept

\* C10: in exact mode a sell whose projected total exceeds a configured cap
\* is kept exactly when every configured cap has room left (cap -
\* on-the-books - to-be-booked > 0); it is then shrunk to the largest size
\* that fits every cap's room (the quote room divided by the price), its
\* amount is that size written with seven decimals, its price is unchanged,
\* and to-be-booked grows by that size in base units and by size x price in
\* quote units; otherwise it is dropped and to-be-booked stays as it was.
C10_ExactShrinks ==
    (ExactSellDecided /\ (ExceedsBase \/ ExceedsQuote)) =>
        IF RoomLeft
        THEN /\ lastOp.kept
             /\ lastOp.returned.Amount = Sprintf7(LargestFit)
             /\ lastOp.returned.Price = lastOp.op.Price
             /\ dailyTBB.base = RAdd(lastOp.tbb.base, LargestFit)
             /\ dailyTBB.quote = RAdd(lastOp.tbb.quote, RMul(LargestFit, LastPrice))
        ELSE /\ ~lastOp.kept
             /\ dailyTBB = lastOp.tbb

\* C10 witness: on-the-books 80, cap 100, a first order of 30: kept with
\* amount 20, to-be-booked 20.
C10_Witness ==
    /\ ExactSellDecided
    /\ filterConfig.SellBaseAssetCapInBaseUnits = Cap(100)
    /\ dailyOTB.base = Whole(80)
    /\ lastOp.tbb.base = Whole(0)
    /\ lastOp.op.Amount = Str(300000000)
    /\ lastOp.kept
    /\ lastOp.returned.Amount = Str(200000000)
    /\ dailyTBB.base = Whole(20)

\* volumeFilterFn has decided a sell operation in ignore mode
IgnoreSellDecided ==
    /\ Filtering
    /\ filterConfig.mode = "ignore"
    /\ IsSell(lastOp.op)

\* C11: in ignore mode a sell whose projected total exceeds a configured cap
\* is dropped and leaves to-be-booked as it was for the operations after it;
\* no operation the call keeps in ignore mode has been shrunk.
C11_IgnoreDrops ==
    /\ (IgnoreSellDecided /\ (ExceedsBase \/ ExceedsQuote)) =>
            /\ ~lastOp.kept
            /\ dailyTBB = lastOp.tbb
    /\ (Filtering /\ filterConfig.mode = "ignore") =>
            \A k \in 1..Len(keptOps) : keptOps[k] \in SubmittedOps

\* C11 witness: ignore mode, on-the-books 80, cap 100, a first order of 30:
\* dropped, to-be-booked still 0.
C11_Witness ==
    /\ IgnoreSellDecided
    /\ filterConfig.SellBaseAssetCapInBaseUnits = Cap(100)
    /\ dailyOTB.base = Whole(80)
    /\ lastOp.tbb = Zero
    /\ lastOp.op.Amount = Str(300000000)
    /\ ~lastOp.kept
    /\ keptOps = <<>>
    /\ dailyTBB = Zero

\* the sell operation just decided is within every configured cap
WithinEveryCap ==
    /\ Filtering
    /\ IsSell(lastOp.op)
    /\ ~ExceedsBase
    /\ ~ExceedsQuote

\* what the operation just decided leaves in to-be-booked when it is kept as
\* submitted
GrownByLast ==
    [base  |-> RAdd(lastOp.tbb.base, LastAmount),
     quote |-> RAdd(lastOp.tbb.quote, RMul(LastAmount, LastPrice))]

\* C12: a sell whose projected total is <= cap for every configured cap is
\* returned with amount and price unmodified and, before the next operation
\* is processed, to-be-booked has grown by its amount (base) and by amount x
\* price (quote); on-the-books is fetched once and no step of the call
\* changes it.
C12_WithinCapsKept ==
    /\ [](WithinEveryCap =>
            /\ lastOp.kept
            /\ lastOp.returned = lastOp.op
            /\ keptOps # <<>>
            /\ keptOps[Len(keptOps)] = lastOp.op
            /\ dailyTBB = GrownByLast)
    /\ [][filterPc = "filtering" => dailyOTB' = dailyOTB]_vars

\* C12 witness: a second sell kept as submitted after a first one was kept,
\* with a cap configured and on-the-books already above zero.
C12_Witness ==
    /\ WithinEveryCap
    /\ filterConfig.SellBaseAssetCapInBaseUnits.set
    /\ dailyOTB.base # Whole(0)
    /\ lastOp.tbb.base # Whole(0)
    /\ lastOp.kept
    /\ lastOp.returned = lastOp.op
    /\ Len(keptOps) = 2
    /\ dailyTBB = GrownByLast

\* volumeFilterFn has decided a sell operation with both caps configured
BothCapsDecided ==
    /\ Filtering
    /\ IsSell(lastOp.op)
    /\ filterConfig.SellBaseAssetCapInBaseUnits.set
    /\ filterConfig.SellBaseAssetCapInQuoteUnits.set

\* the base-unit check shrinks the operation: exact mode, cap exceeded, room
ShrunkByBase ==
    /\ ExceedsBase
    /\ filterConfig.mode = "exact"
    /\ RLt(Whole(0), RoomBase)

PassesBase == ~ExceedsBase \/ ShrunkByBase

\* the size the base-unit check leaves
SizeAfterBase == IF ShrunkByBase THEN RoomBase ELSE LastAmount

\* the quote-unit check finds the size left by the base-unit check within
\* the cap
FitsQuote == RLe(RMul(SizeAfterBase, LastPrice), RoomQuote)

PassesQuote ==
    \/ FitsQuote
    \/ filterConfig.mode = "exact" /\ RLt(Whole(0), RoomQuote)

\* the amount of the surviving operation
SurvivingAmount ==
    IF ~FitsQuote THEN Sprintf7(RDiv(RoomQuote, LastPrice))
    ELSE IF ShrunkByBase THEN Sprintf7(RoomBase)
    ELSE lastOp.op.Amount

\* C13: with both caps configured a sell survives exactly when it passes the
\* base-unit check and then the quote-unit check, the quote-unit check being
\* evaluated with the size the base-unit check left (so a size shrunk by the
\* base cap that fits the quote cap is not shrunk again); an operation
\* failing either check is dropped and adds nothing to to-be-booked.
C13_BothCaps ==
    BothCapsDecided =>
        /\ lastOp.kept <=> (PassesBase /\ PassesQuote)
        /\ lastOp.kept => lastOp.returned.Amount = SurvivingAmount
        /\ ~lastOp.kept => dailyTBB = lastOp.tbb /\ lastOp.returned = NoOp

\* C13 witness: exact mode, base room 20 and quote room 40, a sell of 30 at
\* 1.5: the submitted size would exceed the quote cap (45 > 40), the size the
\* base check left does not (30 <= 40), and the operation survives at 20.
C13_Witness ==
    /\ BothCapsDecided
    /\ ShrunkByBase
    /\ FitsQuote
    /\ RLt(RoomQuote, RMul(LastAmount, LastPrice))
    /\ lastOp.kept
    /\ lastOp.returned.Amount = Str(200000000)

\* volumeFilterFn has decided an operation that buys the base asset
BuyDecided ==
    /\ Filtering
    /\ lastOp.op.Selling = "quote"

\* C14: for any caps, mode and running totals, what volumeFilterFn returns
\* for a buy-side operation is the operation unmodified, and to-be-booked is
\* left unchanged.
C14_BuysPass ==
    BuyDecided =>
        /\ lastOp.kept
        /\ lastOp.returned = lastOp.op
        /\ dailyTBB = lastOp.tbb

-----------------------------------------------------------------------------
(* TWAP sell scheduler: properties of GetLevels *)

\* GetLevels has been called
TwapCalled == lastCall # NoCall

\* the bucket index computed by the last call
LastBucketID == bucketID(twapConfig, lastCall.now)

\* the last call made a bucket (and then returned a level or failed at the
\* price feed)
BucketMade == TwapCalled /\ lastCall.bucket # NoBucket

\* the last call returned a level
LevelReturned == TwapCalled /\ lastCall.levels # <<>>

\* the last call returned an error and no level, and saved nothing
FailedCall(err) ==
    /\ lastCall.e = err
    /\ lastCall.levels = <<>>
    /\ activeBucket = lastCall.before

\* C16: with an active bucket of index p and a newly computed index b, b = p
\* takes the same-bucket transition, b = p + 1 the new-bucket transition,
\* and any other b (the wraparound to 0 at a day boundary included) makes
\* the call return an error and no level; with no active bucket the
\* first-bucket transition is taken.
C16_TransitionSelection ==
    TwapCalled =>
        IF lastCall.before = NoBucket THEN lastCall.via = "first"
        ELSE IF LastBucketID = lastCall.before.ID THEN lastCall.via = "same"
        ELSE IF LastBucketID = lastCall.before.ID + 1 THEN lastCall.via = "new"
        ELSE lastCall.via = "none" /\ lastCall.bucket = NoBucket /\ FailedCall("jump")

\* C16 witness: the active bucket is the last of its day, the call comes in
\* the first bucket of the next day and returns the error.
C16_Witness ==
    /\ TwapCalled
    /\ lastCall.before # NoBucket
    /\ lastCall.before.ID = lastCall.before.totalBuckets - 1
    /\ lastCall.now.day = 1
    /\ Unix(lastCall.now) >= lastCall.before.endTime
    /\ LastBucketID = 0
    /\ FailedCall("jump")

\* the static fields of a bucket
StaticFields(b) ==
    <<b.ID, b.startTime, b.endTime, b.totalBuckets, b.totalBucketsTargeted,
      b.dayBaseSoldStart, b.dayBaseCapacity, b.baseSurplusIncluded, b.baseCapacity,
      b.minOrderSizeBase>>

\* C17: in the same-bucket transition the bucket's static fields are those
\* of the previously active bucket; the dynamic values are is-new = false,
\* the call's round id, day-sold = the freshly queried value and bucket-sold
\* = day-sold - day-start baseline.
C17_SameBucket ==
    (BucketMade /\ lastCall.via = "same") =>
        /\ StaticFields(lastCall.bucket) = StaticFields(lastCall.before)
        /\ lastCall.bucket.dynamicValues.isNew = FALSE
        /\ lastCall.bucket.dynamicValues.roundID = lastCall.rID
        /\ lastCall.bucket.dynamicValues.dayBaseSold = lastCall.queried.baseVol
        /\ lastCall.bucket.dynamicValues.baseSold =
               RSub(lastCall.queried.baseVol, lastCall.before.dayBaseSoldStart)

\* C17 witness: a same-bucket call that returned a level, with a queried
\* volume above the one the bucket held before.
C17_Witness ==
    /\ LevelReturned
    /\ lastCall.via = "same"
    /\ activeBucket = lastCall.bucket
    /\ lastCall.before.dynamicValues.isNew
    /\ RLt(lastCall.before.dynamicValues.dayBaseSold, lastCall.queried.baseVol)
    /\ RLt(lastCall.before.dayBaseSoldStart, lastCall.queried.baseVol)

\* the day's cap of the volume filter of the last call's weekday
DayCap == twapConfig.dowFilter[Weekday(lastCall.now)].cap.v

\* C18: the bucket created by the first-bucket transition has capacity =
\* day cap / ceil(hours-to-sell x 3600 / bucket-duration), surplus included
\* = 0, bucket-sold = 0, and day-start baseline and day-sold both equal to
\* the daily volume the volume filter's query returned.
C18_FirstBucket ==
    (BucketMade /\ lastCall.via = "first") =>
        /\ lastCall.bucket.baseCapacity =
               RDiv(DayCap, Whole(CeilDiv(twapConfig.numHoursToSell * 3600,
                                          twapConfig.parentBucketSizeSeconds)))
        /\ lastCall.bucket.baseSurplusIncluded = Whole(0)
        /\ lastCall.bucket.dynamicValues.baseSold = Whole(0)
        /\ lastCall.bucket.dayBaseSoldStart = lastCall.queried.baseVol
        /\ lastCall.bucket.dynamicValues.dayBaseSold = lastCall.queried.baseVol

\* C18 witness: 13 hours in buckets of 6 hours (3 targeted buckets), day cap
\* 50, 10 already sold today: capacity 50/3, baseline and day-sold 10.
C18_Witness ==
    /\ LevelReturned
    /\ lastCall.via = "first"
    /\ twapConfig = BaseTwapConfig
    /\ lastCall.queried.baseVol = Whole(10)
    /\ activeBucket.baseCapacity = Rat(50, 3)
    /\ activeBucket.dayBaseSoldStart = Whole(10)
    /\ activeBucket.dynamicValues.dayBaseSold = Whole(10)

\* the amount of the level the last call returned
ReturnedAmount == NumberValue(lastCall.levels[1].Amount)

\* x is the remaining capacity when that is <= the minimum child-order
\* size, and lies between the two otherwise
SizedBy(b, x) ==
    IF RLe(baseRemaining(b), b.minOrderSizeBase)
    THEN x = baseRemaining(b)
    ELSE RLe(b.minOrderSizeBase, x) /\ RLe(x, baseRemaining(b))

\* |x| cut off after so many decimals, as a number of units of the last digit
Truncated(x, precision) ==
    LongDiv[Abs(x.n) \div x.d, Abs(x.n) % x.d, x.d, precision].q

\* C19 as stated: in every successful call, if the bucket's remaining
\* capacity is <= the minimum child-order size the returned amount equals
\* exactly the remaining capacity, otherwise it lies between the minimum
\* child-order size and the remaining capacity inclusive.
C19_AsStated == LevelReturned => SizedBy(lastCall.bucket, ReturnedAmount)

\* C19: in every successful call the size of the round is the remaining
\* capacity when that is <= the minimum child-order size and lies between
\* the two otherwise; the returned amount is that size rounded to the
\* nearest unit of the volume precision, so the size cut off at that
\* precision or one unit of the last digit beyond it.
C19_RoundSizing ==
    LevelReturned =>
        /\ SizedBy(lastCall.bucket, lastCall.round.sizeBaseCapped)
        /\ lastCall.levels[1].Amount =
               NumberFromFloat(lastCall.round.sizeBaseCapped, orderConstraints.VolumePrecision)
        /\ Abs(lastCall.levels[1].Amount.v) \in
               { Truncated(lastCall.round.sizeBaseCapped, orderConstraints.VolumePrecision),
                 Truncated(lastCall.round.sizeBaseCapped, orderConstraints.VolumePrecision) + 1 }

\* C19 witness: capacity 50/3 with 10 sold in the bucket leaves 20/3, below
\* the minimum of 25/3: the round's size is 20/3 and the returned amount
\* 6.6666667.
C19_Witness ==
    /\ LevelReturned
    /\ baseRemaining(lastCall.bucket) = Rat(20, 3)
    /\ lastCall.bucket.minOrderSizeBase = Rat(25, 3)
    /\ lastCall.round.sizeBaseCapped = Rat(20, 3)
    /\ lastCall.levels[1].Amount = Num(66666667, 7)

\* C20: the first round that produced a level has id 0, and of the rounds
\* that produced a level, whatever calls failed in between, each later one
\* has a greater id than every earlier one.
C20_RoundIdsIncrease ==
    /\ levelRounds # <<>> => levelRounds[1] = 0
    /\ \A i, j \in 1..Len(levelRounds) : i < j => levelRounds[i] < levelRounds[j]
    /\ LevelReturned => lastCall.round.ID = levelRounds[Len(levelRounds)]

\* C20 witness: three rounds have produced levels, the last of them on the
\* second day, which the clock only reaches through a failed call.
C20_Witness ==
    /\ levelRounds = <<0, 1, 2>>
    /\ LevelReturned
    /\ lastCall.rID = 2
    /\ previousRoundID = 2
    /\ lastCall.now.day = 1

\* C21: after any sequence of calls, whatever daily volumes were observed,
\* the active bucket's effective capacity (base capacity with the surplus
\* folded in) is >= 0.
C21_CapacityNonNegative ==
    activeBucket # NoBucket => RLe(Whole(0), activeBucket.baseCapacity)

\* the last call made a bucket by the new-bucket transition
NewBucketMade == BucketMade /\ lastCall.via = "new"

\* averageBaseCapacity, totalSurplus and totalRemainingBuckets of that
\* transition
AverageCapacity == RSub(lastCall.bucket.baseCapacity, lastCall.bucket.baseSurplusIncluded)

TotalSurplus ==
    RSub(RMul(AverageCapacity, Whole(lastCall.bucket.ID)),
         lastCall.before.dynamicValues.dayBaseSold)

RemainingBuckets == lastCall.bucket.totalBuckets - lastCall.bucket.ID

EvenShare == RDiv(TotalSurplus, Whole(RemainingBuckets))

\* the new-bucket transition found the total surplus equal to one bucket's
\* capacity: the prior bucket was fully unsold
FullyUnsold ==
    /\ NewBucketMade
    /\ TotalSurplus = AverageCapacity
    /\ RLt(Whole(0), TotalSurplus)

\* C22 as stated: with the prior bucket fully unsold (S = one bucket's
\* capacity > 0) the surplus added to the new bucket is strictly greater
\* than S / totalRemainingBuckets, for every smoothing ratio r < 1.
C22_AsStated ==
    FullyUnsold => RLt(EvenShare, lastCall.bucket.baseSurplusIncluded)

\* C22: with the prior bucket fully unsold (S = one bucket's capacity > 0),
\* r < 1 and n >= 1, the surplus added to the new bucket is at least S /
\* totalRemainingBuckets and at most S, and strictly greater than S /
\* totalRemainingBuckets when more than one bucket remains; when the new
\* bucket is the last of the day it is S itself, which is S /
\* totalRemainingBuckets.
C22_FrontLoaded ==
    FullyUnsold =>
        /\ RLe(EvenShare, lastCall.bucket.baseSurplusIncluded)
        /\ RLe(lastCall.bucket.baseSurplusIncluded, TotalSurplus)
        /\ RemainingBuckets > 1 => RLt(EvenShare, lastCall.bucket.baseSurplusIncluded)
        /\ RemainingBuckets = 1 => lastCall.bucket.baseSurplusIncluded = TotalSurplus

\* C22 witness: buckets of 6 hours, nothing sold in bucket 0, cutover to
\* bucket 1 with 3 buckets remaining: S = 50/3, r = 1/2, n = 3, and the
\* surplus added is 200/21 > 50/9.
C22_Witness ==
    /\ FullyUnsold
    /\ LevelReturned
    /\ twapConfig.exponentialSmoothingFactor = Rat(1, 2)
    /\ RemainingBuckets = 3
    /\ TotalSurplus = Rat(50, 3)
    /\ activeBucket.baseSurplusIncluded = Rat(200, 21)

\* a fraction parameter outside [0, 1]
OutsideUnit(x) == RLt(x, Whole(0)) \/ RLt(Whole(1), x)

\* the configuration errors of the scheduler
BadDuration ==
    \/ twapConfig.parentBucketSizeSeconds <= 0
    \/ twapConfig.parentBucketSizeSeconds > 86400
    \/ 86400 % twapConfig.parentBucketSizeSeconds # 0

BadHours == twapConfig.numHoursToSell < 1 \/ twapConfig.numHoursToSell > 24

BadFraction ==
    \/ OutsideUnit(twapConfig.distributeSurplusOverRemainingIntervalsPercentCeiling)
    \/ OutsideUnit(twapConfig.exponentialSmoothingFactor)
    \/ OutsideUnit(twapConfig.minChildOrderSizePercentOfParent)

\* C23: when the bucket duration is <= 0, exceeds 86400 seconds or does not
\* evenly divide 86400, when hours-to-sell is outside 1..24, or when one of
\* the three fraction parameters is outside [0, 1], makeSellTwapLevelProvider
\* returns an error and no scheduler, and no GetLevels call ever runs with
\* that configuration.
C23_ConfigErrorsAtConstruction ==
    (BadDuration \/ BadHours \/ BadFraction) =>
        /\ makeSellTwapLevelProvider(twapConfig) # "none"
        /\ ~twapMade
        /\ ~TwapCalled
        /\ activeBucket = NoBucket
        /\ previousRoundID = NoRound

\* C23 witness: a bucket duration of 50000 seconds, which does not divide
\* 86400: the factory returned the error and nothing ran.
C23_Witness ==
    /\ twapConfig.parentBucketSizeSeconds = 50000
    /\ BadDuration
    /\ ~BadHours
    /\ ~BadFraction
    /\ makeSellTwapLevelProvider(twapConfig) = "divide"
    /\ ~twapMade
    /\ ~TwapCalled

-----------------------------------------------------------------------------
(* Claims on the fill handler *)

\* the call f of HandleFill is between s.mutex.Lock() returning and its return
Inside(f) == handlers[f].pc \in {"locked", "read", "added", "committed", "submitting"}

\* the calls inside the critical section
InsideCalls == { f \in Fills : Inside(f) }

\* a step that reads or writes total or committed is a step of the one call
\* inside the critical section
SurplusTouched ==
    \/ baseSurplus' # baseSurplus
    \/ \E f \in Fills : /\ handlers'[f].pc # handlers[f].pc
                        /\ handlers'[f].pc \in {"read", "added", "committed", "submitting", "returned"}

ByTheHolder ==
    \E f \in Fills : /\ mutex = f
                     /\ InsideCalls = {f}
                     /\ \A g \in Fills \ {f} : handlers'[g] = handlers[g]

\* C24: whatever the number and interleaving of arriving fills, at most one
\* call of HandleFill is between acquiring the lock and returning, the
\* submission of the hedge order included; the mutex names that call; and
\* every step that reads or writes total or committed is taken by it.
C24_MutualExclusion ==
    /\ [](Cardinality(InsideCalls) <= 1)
    /\ [](\A f \in Fills : Inside(f) <=> mutex = f)
    /\ [][SurplusTouched => ByTheHolder]_vars

\* C24 witness: one call waits for AddOrder inside the critical section while
\* another call waits for the lock.
C24_Witness ==
    \E f \in Fills, g \in Fills :
        /\ handlers[f].pc = "submitting"
        /\ mutex = f
        /\ handlers[g].pc = "waiting"

\* the volume the first n calls have added to the total of an action
RECURSIVE VolumeAdded(_, _)
VolumeAdded(action, n) ==
    IF n = 0 THEN 0
    ELSE VolumeAdded(action, n - 1) +
         (IF /\ handlers[n].pc \in {"added", "committed", "submitting", "returned"}
             /\ Reverse(handlers[n].trade.OrderAction) = action
          THEN handlers[n].trade.Volume.v ELSE 0)

\* the volume the first n calls have offset with success for an action
RECURSIVE VolumeOffset(_, _)
VolumeOffset(action, n) ==
    IF n = 0 THEN 0
    ELSE VolumeOffset(action, n - 1) +
         (IF /\ handlers[n].result = "ok"
             /\ Reverse(handlers[n].trade.OrderAction) = action
          THEN handlers[n].newVolume.v ELSE 0)

\* total holds every filled volume that was added and not offset with success
NothingLost ==
    \A action \in OrderActions :
        baseSurplus[action].total.v = VolumeAdded(action, MaxFills) - VolumeOffset(action, MaxFills)

\* the volume of the hedge orders submitted for the call f
RECURSIVE HedgedFrom(_, _)
HedgedFrom(f, i) ==
    IF i > Len(hedgeOrders) THEN 0
    ELSE (IF hedgeOrders[i].fill = f THEN hedgeOrders[i].Volume.v ELSE 0) + HedgedFrom(f, i + 1)

Hedged(f) == HedgedFrom(f, 1)

\* f and g are two handled fills of the minimum volume in the same direction
TwoFillsOfMinimum(f, g) ==
    /\ f # g
    /\ handlers[f].pc = "returned"
    /\ handlers[g].pc = "returned"
    /\ handlers[f].trade.Volume = backingConstraints.MinBaseVolume
    /\ handlers[g].trade.Volume = backingConstraints.MinBaseVolume
    /\ handlers[f].trade.OrderAction = handlers[g].trade.OrderAction

\* C25: of two fills of volume V in the same direction, V being the backing
\* minimum volume, however their calls interleave, not both are skipped, the
\* hedge orders submitted for the two are of V or more together, and the total
\* always holds every added volume that was not offset with success.
C25_NoLostVolume ==
    /\ NothingLost
    /\ \A f \in Fills, g \in Fills :
        TwoFillsOfMinimum(f, g) =>
            /\ ~(handlers[f].result = "skip" /\ handlers[g].result = "skip")
            /\ Hedged(f) + Hedged(g) >= backingConstraints.MinBaseVolume.v

\* C25 witness: two fills of the minimum volume in the same direction were
\* handled, the second call made while the first held the mutex.
C25_Witness ==
    \E f \in Fills, g \in Fills :
        /\ TwoFillsOfMinimum(f, g)
        /\ handlers[g].found = f
        /\ Hedged(f) > 0
        /\ Hedged(g) > 0

\* the call f has returned after AddOrder answered with an error or with a nil
\* transaction id
SubmissionFailed(f) == handlers[f].pc = "returned" /\ handlers[f].answer \in {"error", "nil"}

\* C26: when AddOrder returns an error or a nil transaction id, HandleFill
\* returns an error, total is what it was after the fill was added, and
\* committed keeps the value it had after the volume was committed: what it
\* was before the call plus the order's volume.
C26_FailureKeepsReservation ==
    \A f \in Fills :
        SubmissionFailed(f) =>
            /\ handlers[f].result = "error"
            /\ handlers[f].atReturn.total = NumAdd(handlers[f].atLock.total, handlers[f].trade.Volume)
            /\ handlers[f].atReturn.committed = handlers[f].atSubmit.committed
            /\ handlers[f].atReturn.committed = NumAdd(handlers[f].atLock.committed, handlers[f].newVolume)
            /\ handlers[f].newVolume.v > 0

\* C26 witness: one call has returned after an error of AddOrder and another
\* after a nil transaction id, the second with the volume of the first still
\* committed.
C26_Witness ==
    \E f \in Fills, g \in Fills :
        /\ SubmissionFailed(f)
        /\ SubmissionFailed(g)
        /\ handlers[f].answer = "error"
        /\ handlers[g].answer = "nil"
        /\ handlers[g].atLock.committed = handlers[f].atReturn.committed
        /\ handlers[g].atLock.committed.v > 0

\* the call f has handed its order to AddOrder
Submitted(f) == handlers[f].pc = "submitting" \/ (handlers[f].pc = "returned" /\ handlers[f].answer # "none")

\* the call f has returned after AddOrder answered with a transaction id
SubmissionSucceeded(f) == handlers[f].pc = "returned" /\ handlers[f].answer = "id"

\* C27: the volume of the hedge order is already in committed when the order
\* is handed to AddOrder, and after a successful submission total and
\* committed are each less by exactly that volume, committed being again what
\* it was before the call.
C27_SuccessReleases ==
    \A f \in Fills :
        /\ Submitted(f) =>
            /\ handlers[f].atSubmit.committed = NumAdd(handlers[f].atLock.committed, handlers[f].newVolume)
            /\ Hedged(f) = handlers[f].newVolume.v
        /\ SubmissionSucceeded(f) =>
            /\ handlers[f].result = "ok"
            /\ handlers[f].atReturn.total = NumSubtract(handlers[f].atSubmit.total, handlers[f].newVolume)
            /\ handlers[f].atReturn.committed = NumSubtract(handlers[f].atSubmit.committed, handlers[f].newVolume)
            /\ handlers[f].atReturn.committed = handlers[f].atLock.committed
            /\ handlers[f].newVolume.v > 0

\* C27 witness: a call has offset its fill with success although an earlier
\* failure had left volume committed.
C27_Witness ==
    \E f \in Fills :
        /\ SubmissionSucceeded(f)
        /\ handlers[f].atLock.committed.v > 0
        /\ handlers[f].atSubmit.committed.v > handlers[f].atLock.committed.v
        /\ handlers[f].atReturn.total.v < handlers[f].atSubmit.total.v

\* total - committed of the reversed action once the call f has added its fill
UncommittedAfterAdd(f) ==
    NumSubtract(NumAdd(handlers[f].atLock.total, handlers[f].trade.Volume), handlers[f].atLock.committed)

\* the call f has passed baseVolumeToOffset
Decided(f) == handlers[f].pc \in {"committed", "submitting", "returned"}

BelowHalfMinimum(f) == 2 * UncommittedAfterAdd(f).v < backingConstraints.MinBaseVolume.v

\* the hedge orders submitted for the call f
OrdersOf(f) == { i \in 1..Len(hedgeOrders) : hedgeOrders[i].fill = f }

\* C28: when, the fill added to total, the uncommitted surplus of the reversed
\* action is below half the backing minimum volume, HandleFill submits no
\* hedge order, leaves committed as it was and returns without error.
C28_SkipRule ==
    \A f \in Fills :
        (Decided(f) /\ BelowHalfMinimum(f)) =>
            /\ handlers[f].pc = "returned"
            /\ handlers[f].result = "skip"
            /\ OrdersOf(f) = {}
            /\ handlers[f].atReturn.committed = handlers[f].atLock.committed
            /\ handlers[f].atReturn.total = NumAdd(handlers[f].atLock.total, handlers[f].trade.Volume)

\* C28 witness: a call was skipped with a positive uncommitted surplus just
\* under half the minimum, and another with volume committed from before.
C28_Witness ==
    \E f \in Fills, g \in Fills :
        /\ handlers[f].result = "skip"
        /\ UncommittedAfterAdd(f).v = 400000
        /\ handlers[g].result = "skip"
        /\ handlers[g].atLock.committed.v > 0

\* C29: when that uncommitted surplus is half the minimum volume or more, one
\* hedge order and no more is submitted for the fill, of the whole uncommitted
\* surplus if it exceeds the minimum volume and of exactly the minimum volume
\* otherwise.
C29_OffsetSizing ==
    \A f \in Fills :
        (Decided(f) /\ ~BelowHalfMinimum(f)) =>
            /\ handlers[f].result # "skip"
            /\ handlers[f].newVolume =
                   (IF UncommittedAfterAdd(f).v > backingConstraints.MinBaseVolume.v
                    THEN UncommittedAfterAdd(f) ELSE backingConstraints.MinBaseVolume)
            /\ Submitted(f) =>
                /\ Cardinality(OrdersOf(f)) = 1
                /\ \A i \in OrdersOf(f) :
                    /\ hedgeOrders[i].Volume = handlers[f].newVolume
                    /\ hedgeOrders[i].OrderAction = Reverse(handlers[f].trade.OrderAction)

\* C29 witness: one order of the minimum was submitted for an uncommitted
\* surplus of exactly half the minimum, and one of the whole surplus for a
\* surplus above the minimum.
C29_Witness ==
    \E f \in Fills, g \in Fills :
        /\ Submitted(f)
        /\ 2 * UncommittedAfterAdd(f).v = backingConstraints.MinBaseVolume.v
        /\ handlers[f].newVolume = backingConstraints.MinBaseVolume
        /\ Submitted(g)
        /\ UncommittedAfterAdd(g).v > backingConstraints.MinBaseVolume.v
        /\ handlers[g].newVolume = UncommittedAfterAdd(g)

-----------------------------------------------------------------------------
(* mirror strategy: the order of the list UpdateWithOps returns *)

\* UpdateWithOps has returned a list without error
ListReturned == updatePc = "built" /\ updateErr = "none"

\* the delete at j stands before the modify or create at k
DeleteAfterOther(j, k) ==
    /\ updateOps[j].kind = "delete"
    /\ updateOps[k].kind # "delete"
    /\ j > k

\* C30 as stated: in the list UpdateWithOps returns, every delete operation
\* stands before every modify and create operation, of either side.
C30_AsStated ==
    ListReturned => \A j, k \in 1..Len(updateOps) : ~DeleteAfterOther(j, k)

\* C30: the list UpdateWithOps returns is the list of one side followed by
\* the list of the other, in either side order, and every delete operation
\* stands before every modify and create operation of its own side.
C30_DeletesFirstPerSide ==
    ListReturned =>
        /\ updateOps \in {sideOps("sell", sellOps) \o sideOps("buy", buyOps),
                          sideOps("buy", buyOps) \o sideOps("sell", sellOps)}
        /\ \A j, k \in 1..Len(updateOps) :
            updateOps[j].side = updateOps[k].side => ~DeleteAfterOther(j, k)

\* C30 witness: a returned list with the buy side first, in which a delete
\* of the sell side stands after a modify or create of the buy side.
C30_Witness ==
    /\ ListReturned
    /\ \E j, k \in 1..Len(updateOps) :
        /\ DeleteAfterOther(j, k)
        /\ updateOps[j].side = "sell"
        /\ updateOps[k].side = "buy"

-----------------------------------------------------------------------------
(* volume filter in float64: a cap that has been reached *)

\* the call is filtering or has returned its operations without an error
Filtering64 == filterPc64 \in {"filtering", "returned"} /\ filterErr64 = "none"

\* on-the-books and to-be-booked together equal a configured cap
AtCap64(tbb) ==
    \/ /\ config64.SellBaseAssetCapInBaseUnits.set
       /\ FAdd(dailyOTB64.base, tbb.base) = config64.SellBaseAssetCapInBaseUnits.v
    \/ /\ config64.SellBaseAssetCapInQuoteUnits.set
       /\ FAdd(dailyOTB64.quote, tbb.quote) = config64.SellBaseAssetCapInQuoteUnits.v

\* the operations accepted before the last one have brought the totals up to
\* a cap: one of them was shrunk to fill it, or the totals equal it
CapReached64 ==
    \/ lastOp64.afterShrunk
    \/ lastOp64.tbb # Zero64 /\ AtCap64(lastOp64.tbb)

\* a sell of positive size was decided with a cap reached
DecidedAtCap64 ==
    /\ Filtering64
    /\ IsSell(lastOp64.op)
    /\ lastOp64.op.Amount.v > 0
    /\ CapReached64

\* C31: within one call of Apply, once the accepted sells have brought
\* on-the-books plus to-be-booked up to a configured cap (one of them was
\* shrunk to fill it, or the totals equal it), every later sell of positive
\* size is dropped, in exact and in ignore mode.
C31_CapReachedDropsRest == DecidedAtCap64 => ~lastOp64.kept

\* the failing input of C31: quote cap 60, on-the-books 59, a sell at 49
\* shrunk to 1/49, and the sell after it kept with the amount 0.0000000
C31_ZeroSizeKept ==
    /\ DecidedAtCap64
    /\ config64.mode = "exact"
    /\ dailyOTB64 = Volumes64(80, 59)
    /\ keptOps64 = <<[Selling |-> "base", Price |-> Price(49, 1), Amount |-> Str(204082)],
                     [Selling |-> "base", Price |-> Price(49, 1), Amount |-> Str(0)]>>
    /\ lastOp64.tbb.quote = FMul(FDiv(FInt(1), FInt(49)), FInt(49))
    /\ FLt(lastOp64.tbb.quote, FInt(1))

-----------------------------------------------------------------------------
(* sell-side TWAP: failed calls and bucket-index jumps *)

\* the call that has just been made failed
CallFailed == lastCall' # NoCall /\ lastCall'.e # "none"

\* the step adopts a bucket next to the active one: the same index or the
\* index after it
AdoptsNeighbour ==
    (activeBucket # NoBucket /\ activeBucket' # activeBucket)
        => activeBucket'.ID - activeBucket.ID \in {0, 1}

\* C32: a failed call of GetLevels (bucket-index jump, volume query error,
\* price feed error) leaves the active bucket and the previous round id as
\* they were, and no call adopts a bucket whose index differs from the active
\* bucket's by anything other than 0 or +1, so a jump is never resynchronized.
C32_FailedCallKeepsState ==
    [][ /\ CallFailed => UNCHANGED <<activeBucket, previousRoundID>>
        /\ AdoptsNeighbour ]_twapVars

\* a call failed on a bucket-index jump of more than one bucket, and the active
\* bucket and the previous round id are still those of the last successful call
C32_Witness ==
    /\ FailedCall("jump")
    /\ activeBucket # NoBucket
    /\ activeBucket = lastCall.before
    /\ bucketID(twapConfig, lastCall.now) > activeBucket.ID + 1
    /\ previousRoundID = activeBucket.dynamicValues.roundID

-----------------------------------------------------------------------------
(* sell-side TWAP: the returned amount and the day cap *)

\* C38: for every successful call of GetLevels, whatever daily volume the
\* store reports, the returned amount is not negative and does not exceed
\* what remains of the day cap (day capacity - day sold so far).
C38_AmountWithinDayCap ==
    LevelReturned =>
        /\ RLe(Whole(0), ReturnedAmount)
        /\ RLe(ReturnedAmount, dayBaseRemaining(lastCall.bucket))

\* the failing input of C38: the first call of the day finds 48 of the day's
\* 50 sold, sizes the round by the bucket's capacity of 50/3 and returns 12.5
\* with 2 left of the day
C38_MoreThanTheDayHasLeft ==
    /\ LevelReturned
    /\ lastCall.via = "first"
    /\ lastCall.queried.baseVol = Whole(48)
    /\ dayBaseRemaining(lastCall.bucket) = Whole(2)
    /\ baseRemaining(lastCall.bucket) = Rat(50, 3)
    /\ lastCall.levels[1].Amount = Num(125000000, 7)

\* the other failing input of C38: a bucket entered with the day oversold has
\* a negative capacity, and the returned amount is negative
C38_NegativeAmount ==
    /\ LevelReturned
    /\ lastCall.via = "new"
    /\ RLt(ReturnedAmount, Whole(0))

-----------------------------------------------------------------------------
(* sell-side TWAP: the divisor of the surplus formula *)

\* C39: for every configuration makeSellTwapLevelProvider accepts (smoothing
\* factor and distribution ceiling anywhere from 0 to 1, the ends included)
\* and every new-bucket transition, the divisor r^n - 1 of the surplus
\* formula, n = ceil(ceiling * remaining buckets), is not 0, and the new
\* bucket's capacity is a number.
C39_DivisorNonZero ==
    surplusCall.called =>
        /\ surplusCall.divisor # Whole(0)
        /\ surplusCall.baseCapacity.kind = "number"

\* a failing input of C39: smoothing factor 1, accepted, gives 1^n - 1 = 0
\* and the capacity 0/0
C39_SmoothingFactorOne ==
    /\ surplusCall.called
    /\ surplusConfig.exponentialSmoothingFactor = Whole(1)
    /\ surplusConfig.distributeSurplusOverRemainingIntervalsPercentCeiling = Whole(1)
    /\ surplusCall.totalRemainingBuckets = 3
    /\ surplusCall.divisor = Whole(0)
    /\ surplusCall.baseCapacity = NotANumber

\* another failing input of C39: distribution ceiling 0, accepted, gives
\* n = 0 and r^0 - 1 = 0, and an infinite capacity for a surplus that is not 0
C39_CeilingZero ==
    /\ surplusCall.called
    /\ surplusConfig.exponentialSmoothingFactor = Rat(1, 2)
    /\ surplusConfig.distributeSurplusOverRemainingIntervalsPercentCeiling = Whole(0)
    /\ surplusCall.totalSurplus # Whole(0)
    /\ surplusCall.divisor = Whole(0)
    /\ surplusCall.baseCapacity = Infinite

\* inside the ranges the divisor is not 0
C39_InsideTheRanges ==
    /\ surplusCall.called
    /\ surplusConfig.exponentialSmoothingFactor = Rat(1, 2)
    /\ surplusConfig.distributeSurplusOverRemainingIntervalsPercentCeiling = Rat(1, 2)
    /\ surplusCall.divisor # Whole(0)
    /\ surplusCall.baseCapacity.kind = "number"

-----------------------------------------------------------------------------
(* process registry: duplicate registrations and concurrent calls of Stop *)

\* the calls of Stop made on the namespace
StopsOn(namespace) ==
    { c \in Stoppers : stops[c].pc # "none" /\ stops[c].namespace = namespace }

\* the calls of Stop that found the command pid under the namespace
StopsOf(namespace, pid) ==
    { c \in StopsOn(namespace) : stops[c].exists /\ stops[c].p = pid }

\* no command was started since any of these calls read the registry: the
\* calls race with each other only
NothingStartedSince(callers) == \A c \in callers : stops[c].at = nextPid

\* the calls that have unregistered the entry
Unregistering(callers) ==
    { c \in callers : stops[c].pc = "unregistered" \/ stops[c].result = "killed" }

\* the calls of Kill made by these callers
KillsBy(callers) == { i \in DOMAIN kills : kills[i].by \in callers }

\* of the calls of Stop racing for the command registered under a namespace
\* at most one unregisters it; when all have returned exactly one has killed
\* it, once, and every other one has returned an error and killed nothing
OneStopWins ==
    \A namespace \in Namespaces, pid \in 1..MaxPids :
        (StopsOf(namespace, pid) # {} /\ NothingStartedSince(StopsOn(namespace))) =>
            /\ \A c \in StopsOn(namespace) : stops[c].exists => stops[c].p = pid
            /\ Cardinality(Unregistering(StopsOn(namespace))) <= 1
            /\ \A i \in KillsBy(StopsOn(namespace)) :
                   kills[i].pid = pid /\ stops[kills[i].by].result = "killed"
            /\ Cardinality(KillsBy(StopsOn(namespace)))
                   = Cardinality({ c \in StopsOn(namespace) : stops[c].result = "killed" })
            /\ (\A c \in StopsOn(namespace) : stops[c].pc = "done")
               => /\ Cardinality(Unregistering(StopsOn(namespace))) = 1
                  /\ \A c \in StopsOn(namespace) :
                         stops[c].result \in {"killed", "error", "missing"}
                  /\ processes[namespace] = NoProcess
                  /\ pid \notin running

\* a registration under a namespace that is taken fails and leaves the
\* registry as it was
DuplicateRefused ==
    \A namespace \in Namespaces :
        (nextPid' # nextPid /\ lastRegister'.namespace = namespace
                            /\ processes[namespace] # NoProcess)
            => lastRegister'.result = "exists" /\ processes' = processes

C40_ReRegisteredBetween ==
    /\ StopsOf("kelp", 1) = {1, 2}
    /\ stops[1].result = "killed" /\ stops[2].result = "killed"
    /\ 2 \in running
    /\ processes["kelp"] = NoProcess

-----------------------------------------------------------------------------
(* fill handler: what failed submissions leave behind *)

\* the volume of the failed submissions among the first n calls, for an action
RECURSIVE VolumeFailed(_, _)
VolumeFailed(action, n) ==
    IF n = 0 THEN 0
    ELSE VolumeFailed(action, n - 1) +
         (IF /\ SubmissionFailed(n)
             /\ Reverse(handlers[n].trade.OrderAction) = action
          THEN handlers[n].newVolume.v ELSE 0)

\* no handler is running: none is between s.mutex.Lock() and its return
NoHandlerRunning == InsideCalls = {}

\* the order of the call f, which holds the mutex, is sized from the total
\* less the volume of the submissions that failed
SizedWithoutFailed(f, action) ==
    /\ handlers[f].atLock.committed.v = VolumeFailed(action, MaxFills)
    /\ handlers[f].newVolume =
           offsetOf(Num(handlers[f].atSubmit.total.v - VolumeFailed(action, MaxFills), 7)).newVolume
    /\ \A i \in OrdersOf(f) : hedgeOrders[i].Volume = handlers[f].newVolume

\* C33: after a hedge submission fails, no later call of HandleFill lowers
\* committed below the failed order's volume, and that volume is in no later
\* hedge order; whenever no handler is running, committed is the sum of the
\* volumes of the failed submissions of that direction, 0 if none failed.
C33_StuckCommitment ==
    /\ \A action \in OrderActions :
        /\ baseSurplus[action].committed.v >= VolumeFailed(action, MaxFills)
        /\ NoHandlerRunning => baseSurplus[action].committed.v = VolumeFailed(action, MaxFills)
    /\ \A f \in Fills :
        handlers[f].pc = "submitting" =>
            SizedWithoutFailed(f, Reverse(handlers[f].trade.OrderAction))

\* C33 witness: a submission of 0.1 failed; a later fill of 0.15 in the same
\* direction was offset with an order of 0.15, not 0.25, and with no handler
\* running 0.1 is committed still.
C33_Witness ==
    \E f \in Fills, g \in Fills :
        /\ SubmissionFailed(f)
        /\ handlers[f].newVolume = Num(1000000, 7)
        /\ SubmissionSucceeded(g)
        /\ handlers[g].trade.OrderAction = handlers[f].trade.OrderAction
        /\ handlers[g].atLock.committed = Num(1000000, 7)
        /\ handlers[g].atSubmit.total = Num(2500000, 7)
        /\ \A i \in OrdersOf(g) : hedgeOrders[i].Volume = Num(1500000, 7)
        /\ OrdersOf(g) # {}
        /\ NoHandlerRunning
        /\ baseSurplus[Reverse(handlers[f].trade.OrderAction)].committed = Num(1000000, 7)

-----------------------------------------------------------------------------
(* fill handler: a fill arriving during a submission *)

\* while the submission of the call f is in flight, a call that waits for
\* the mutex stays where it is and the surplus is what it was
WaitsBehind(f) ==
    (handlers[f].pc = "submitting" /\ handlers'[f].pc = "submitting") =>
        /\ baseSurplus' = baseSurplus
        /\ mutex' = f
        /\ \A g \in Fills :
               handlers[g].pc = "waiting" =>
                   handlers'[g].pc = "waiting" /\ handlers'[g].total = handlers[g].total

\* the return of AddOrder, whatever it answers, ends the call f and frees the
\* mutex
ReleasedOnReturn(f) ==
    (handlers[f].pc = "submitting" /\ handlers'[f].pc # "submitting") =>
        /\ handlers'[f].pc = "returned"
        /\ handlers'[f].answer \in AddOrderAnswers
        /\ mutex' = NoHolder

\* a call that has returned does not hold the mutex
NotHeldAfterReturn == \A f \in Fills : handlers[f].pc = "returned" => mutex # f

\* C34: a fill that arrives while the hedge submission of another is in
\* flight reads and writes no surplus state until that submission returns;
\* when it returns, with a transaction id, an error or a nil id, the mutex is
\* released and the waiting fill is then handled; a failed submission never
\* leaves the mutex held.
C34_WaitingFillProceeds ==
    /\ [][\A f \in Fills : WaitsBehind(f) /\ ReleasedOnReturn(f)]_vars
    /\ []NotHeldAfterReturn
    /\ \A g \in Fills : (handlers[g].pc = "waiting") ~> (handlers[g].pc = "returned")

\* C34 witness: the second fill arrived while the first call held the mutex
\* and waited through the submission of its order, which failed; the second
\* was then handled to its end, from the surplus the first had left.
C34_Witness ==
    /\ handlers[2].found = 1
    /\ SubmissionFailed(1)
    /\ hedgeOrders # <<>> /\ hedgeOrders[1].fill = 1
    /\ handlers[2].pc = "returned"
    /\ handlers[2].atLock = handlers[1].atReturn
    /\ mutex = NoHolder

-----------------------------------------------------------------------------
(* fill handler: conservation of the surplus *)

\* the volume of the fills among the first n calls that were handled to the
\* end and hedge with the action
RECURSIVE VolumeHandled(_, _)
VolumeHandled(action, n) ==
    IF n = 0 THEN 0
    ELSE VolumeHandled(action, n - 1) +
         (IF /\ handlers[n].pc = "returned"
             /\ Reverse(handlers[n].trade.OrderAction) = action
          THEN handlers[n].trade.Volume.v ELSE 0)

\* the volume of the hedge orders of the action whose submission succeeded
RECURSIVE VolumeHedged(_, _)
VolumeHedged(action, i) ==
    IF i = 0 THEN 0
    ELSE VolumeHedged(action, i - 1) +
         (IF /\ hedgeOrders[i].OrderAction = action
             /\ SubmissionSucceeded(hedgeOrders[i].fill)
          THEN hedgeOrders[i].Volume.v ELSE 0)

\* with no handler running, total is what was filled less what was hedged
Conserved ==
    NoHandlerRunning =>
        \A action \in OrderActions :
            baseSurplus[action].total.v =
                VolumeHandled(action, MaxFills) - VolumeHedged(action, Len(hedgeOrders))

\* a step of the call f leaves the surplus of its trade's own action alone
OtherDirectionKept(f) ==
    handlers'[f] # handlers[f] =>
        baseSurplus'[handlers'[f].trade.OrderAction] = baseSurplus[handlers'[f].trade.OrderAction]

\* C36: whenever no fill handler is running, for each hedge direction total
\* is the sum of the volumes of the fills handled for the reversed direction,
\* the skipped ones included, less the sum of the volumes of the hedge orders
\* whose submission succeeded; and a fill for one direction leaves the total
\* and committed of the other direction as they were.
C36_SurplusConservation ==
    /\ []Conserved
    /\ [][\A f \in Fills : OtherDirectionKept(f)]_vars

\* C36 witness: with no handler running, a skipped fill of 0.04 is all of one
\* direction's total, and a fill of the other direction was hedged with
\* success and left nothing.
C36_Witness ==
    \E f \in Fills, g \in Fills :
        /\ NoHandlerRunning
        /\ handlers[f].result = "skip"
        /\ handlers[f].trade.Volume = Num(400000, 7)
        /\ SubmissionSucceeded(g)
        /\ handlers[g].trade.OrderAction = Reverse(handlers[f].trade.OrderAction)
        /\ baseSurplus[Reverse(handlers[f].trade.OrderAction)].total = Num(400000, 7)
        /\ baseSurplus[handlers[f].trade.OrderAction] = makeAssetSurplus
        /\ Len(hedgeOrders) = 1

-----------------------------------------------------------------------------
(* fill handler: the deficit of the uncommitted surplus *)

\* total - committed of an action, in units of 10^-7
Uncommitted(action) == baseSurplus[action].total.v - baseSurplus[action].committed.v

\* C37: for fills of non-negative volume, in any order and with any mix of
\* successful and failed submissions, whenever no fill handler is running the
\* uncommitted surplus (total - committed) of each direction is at least
\* -(minimum base volume / 2).
C37_BoundedDeficit ==
    NoHandlerRunning =>
        \A action \in OrderActions :
            2 * Uncommitted(action) >= -backingConstraints.MinBaseVolume.v

\* C37 witness: a fill of half the minimum was offset with an order of the
\* minimum, which failed, and a second one in the same direction with one
\* that succeeded; no handler is running and the uncommitted surplus of the
\* direction is a deficit of exactly half the minimum.
C37_Witness ==
    \E f \in Fills, g \in Fills, action \in OrderActions :
        /\ NoHandlerRunning
        /\ SubmissionFailed(f)
        /\ SubmissionSucceeded(g)
        /\ Reverse(handlers[f].trade.OrderAction) = action
        /\ Reverse(handlers[g].trade.OrderAction) = action
        /\ handlers[f].newVolume = backingConstraints.MinBaseVolume
        /\ 2 * Uncommitted(action) = -backingConstraints.MinBaseVolume.v

-----------------------------------------------------------------------------
(* mirror strategy: what a pass reserves *)

\* the positions of a pass: live offers and target levels
Positions == 1..(IF Len(oldOffers) > Len(newOrders) THEN Len(oldOffers) ELSE Len(newOrders))

\* the live offer of position i is kept as it is
KeptAt(i) == Paired(i) /\ EpsilonEqualAt(i) /\ OpsAt(i) = {}

\* the target of position i, beyond the live offers, is below the backing
\* venue's minimum base volume and is skipped
SkippedAt(i) ==
    /\ i > Len(oldOffers)
    /\ i <= Len(newOrders)
    /\ LessFloat[TargetVol(i), backingConstraints.MinBaseVolume]

\* position i is one the pass reserves capital for
ReservingAt(i) == KeptAt(i) \/ HasOp(allOps, "modify", i) \/ HasOp(allOps, "create", i)

\* C35: in a pass, capital is reserved exactly once for each live offer that
\* is kept, each offer for which a modify is emitted and each target for which
\* a create is emitted, and never for a live offer that is deleted, a target
\* skipped for its size, or a create or modify the venue answered with nil.
C35_ReservedOncePerOffer ==
    /\ Finished =>
        /\ \A i \in Positions :
            /\ ReservingAt(i) => Cardinality(Reserved(i)) = 1
            /\ HasOp(allOps, "delete", i) => Reserved(i) = {}
            /\ SkippedAt(i) => Reserved(i) = {} /\ OpsAt(i) = {}
            /\ Answered(i, "nil") => Reserved(i) = {}
            /\ ~ReservingAt(i) => Reserved(i) = {}
        /\ \A k \in 1..Len(liabilities) : liabilities[k].idx \in Positions
    /\ pc = "built" =>
        \A i \in Positions :
            /\ Cardinality(Reserved(i)) <= 1
            /\ Answered(i, "nil") => Reserved(i) = {}

\* C35 witness: a finished pass that emitted a modify for its live offer and
\* was answered nil for the create of a second level, and reserved capital
\* once, for the modified offer.
C35_Witness ==
    /\ Finished
    /\ Len(oldOffers) = 1
    /\ Len(newOrders) = 2
    /\ HasOp(allOps, "modify", 1)
    /\ Answered(2, "nil")
    /\ OpsAt(2) = {}
    /\ Len(liabilities) = 1
    /\ Reserved(1) = {1}

=============================================================================
